---- MODULE Spec2Model ----
(***************************************************************************)
(* Configuration resolution of the application: ConfigValidator,           *)
(* EnvironmentSetup (config.toml, .env, process environment) and the       *)
(* _SafeConfig read wrapper; the Config.get singleton, called in sequence  *)
(* and by concurrent threads; the Resources index on a changing            *)
(* filesystem; ThemeManager on the shared configuration; Logger and its    *)
(* file.                                                                   *)
(*                                                                         *)
(* A Python str is a sequence of one-character strings, so that upper(),   *)
(* lower(), isupper(), int() and pathlib's parsing are computed and not    *)
(* assumed.                                                                *)
(***************************************************************************)
EXTENDS Integers, Sequences, FiniteSets, TLC

VARIABLES
    fs,        \* the filesystem: [dirs, files], sets of absolute paths
    created,   \* directories the last operation created
    castIn,    \* arguments of the last _auto_cast call: [key, value]
    castOut,   \* its outcome: [raised, exc, val]
    nCasts,    \* number of _auto_cast calls made so far
    bundled,   \* hasattr(sys, "_MEIPASS")
    tomlFile,  \* config.toml: [state, top]
    envFile,   \* .env: [exists, entries]
    environ0,  \* os.environ when the process started
    environ,   \* os.environ: name -> string
    pc,        \* "init", "constructed", "loaded", "raised_init", "raised_load"
    self,      \* the EnvironmentSetup instance: [is_dev, toml_data, env_loaded]
    config,    \* the mapping load() returned
    logger,    \* Logger's class attributes
    reports,   \* the Logger calls of the last operation
    getIn,     \* arguments of the last _SafeConfig.get: [key, given, default]
    getOut,    \* the value it returned
    _is_bundled, \* Resources._is_bundled: getattr(sys, "frozen", False)
    res,       \* the class Resources: [cfg, attrs, resources, accessors]
    snap,      \* per category: its directory and the files that existed when it was indexed
    resIn,     \* the last call on Resources: [op, given, items, name, path]
    resOut,    \* its outcome: [out, list, all]
    nInits,    \* number of Resources.initialize calls made so far
    nFsOps,    \* number of files written or deleted by others so far
    _instance, \* Config._instance: [none, id]
    nCalls,    \* number of Config.get calls made so far
    nLoads,    \* number of EnvironmentSetup objects Config.get constructed
    nRaised,   \* number of Config.get calls that raised
    cfgOut,    \* outcome of the last Config.get: [raised, exc, id]
    tm,        \* the class ThemeManager
    tmOut,     \* what the last ThemeManager call did: [raised, exc, palette, emitted]
    sysDark,   \* is_system_dark_mode()
    qapp,      \* QApplication.instance() is not None
    first,     \* what an earlier resolution returned and left behind: [done, config, environ, fs]
    logFile,   \* the lines of the file at Logger.LOG_FILE_PATH, in file order
    nLogOps,   \* number of calls made on Logger so far
    threads    \* the threads inside Config.get: thread -> [pc, obj, ret]

castVars == <<castIn, castOut, nCasts>>
cfgVars == <<bundled, tomlFile, envFile, environ0, environ, pc, self, config, logger,
             reports, getIn, getOut>>
resVars == <<_is_bundled, res, snap, resIn, resOut, nInits, nFsOps>>
appVars == <<_instance, nCalls, nLoads, nRaised, cfgOut, tm, tmOut, sysDark, qapp>>
runVars == <<first, logFile, nLogOps, threads>>
vars == <<fs, created, castVars, cfgVars, resVars, appVars, runVars>>
\* what no call on ThemeManager changes of the configuration resolution
cfgFrame == <<bundled, tomlFile, envFile, environ0, environ, pc, self, config, logger,
              getIn, getOut>>

(***************************************************************************)
(* Bounds                                                                  *)
(***************************************************************************)
MaxCasts == 2
MaxInits == 2
MaxFsOps == 1
MaxCalls == 2
MaxLogOps == 3
MaxThreads == 2

(***************************************************************************)
(* Characters and strings                                                  *)
(***************************************************************************)
LowerCs == <<"a", "b", "c", "d", "e", "f", "g", "h", "i", "j", "k", "l", "m", "n", "o", "p", "q", "r", "s", "t", "u", "v", "w", "x", "y", "z">>
UpperCs == <<"A", "B", "C", "D", "E", "F", "G", "H", "I", "J", "K", "L", "M", "N", "O", "P", "Q", "R", "S", "T", "U", "V", "W", "X", "Y", "Z">>
DigitCs == <<"0", "1", "2", "3", "4", "5", "6", "7", "8", "9">>

Range(q) == {q[i] : i \in DOMAIN q}
IndexOf(c, q) == CHOOSE i \in DOMAIN q : q[i] = c

IsLowerC(c) == c \in Range(LowerCs)
IsUpperC(c) == c \in Range(UpperCs)
IsDigitC(c) == c \in Range(DigitCs)

UpperC(c) == IF IsLowerC(c) THEN UpperCs[IndexOf(c, LowerCs)] ELSE c
LowerC(c) == IF IsUpperC(c) THEN LowerCs[IndexOf(c, UpperCs)] ELSE c

\* str.upper(), str.lower()
upper(s) == [i \in DOMAIN s |-> UpperC(s[i])]
lower(s) == [i \in DOMAIN s |-> LowerC(s[i])]

\* str.isupper(): no lower-case character and at least one cased character
isupper(s) ==
    /\ \A i \in DOMAIN s : ~IsLowerC(s[i])
    /\ \E i \in DOMAIN s : IsUpperC(s[i])

\* x in s, for strings
Contains(s, x) ==
    \E i \in 1..(Len(s) - Len(x) + 1) : SubSeq(s, i, i + Len(x) - 1) = x

\* str.strip() of blanks
RECURSIVE LStrip(_)
LStrip(s) == IF s # <<>> /\ Head(s) = " " THEN LStrip(Tail(s)) ELSE s
RECURSIVE RStrip(_)
RStrip(s) ==
    IF s # <<>> /\ s[Len(s)] = " " THEN RStrip(SubSeq(s, 1, Len(s) - 1)) ELSE s
Strip(s) == RStrip(LStrip(s))

(***************************************************************************)
(* Values of the configuration mapping.  One record shape for all Python   *)
(* types: t is the type, s a string, n an integer, b a boolean.            *)
(***************************************************************************)
VStr(s) == [t |-> "str", s |-> s, n |-> 0, b |-> FALSE]
VBool(b) == [t |-> "bool", s |-> <<>>, n |-> 0, b |-> b]
VInt(n) == [t |-> "int", s |-> <<>>, n |-> n, b |-> FALSE]
VLogLevel(s) == [t |-> "LogLevel", s |-> s, n |-> 0, b |-> FALSE]
VAppTheme(s) == [t |-> "AppTheme", s |-> s, n |-> 0, b |-> FALSE]
VTable(s) == [t |-> "dict", s |-> s, n |-> 0, b |-> FALSE]
VNone == [t |-> "None", s |-> <<>>, n |-> 0, b |-> FALSE]

\* The outcome of a call: a returned value or a raised exception.
Return(v) == [raised |-> FALSE, exc |-> "", val |-> v]
Raise(e) == [raised |-> TRUE, exc |-> e, val |-> VNone]

(***************************************************************************)
(* Enumerations                                                            *)
(***************************************************************************)
LogLevel ==
    { <<"D", "E", "B", "U", "G">>, <<"I", "N", "F", "O">>,
      <<"W", "A", "R", "N", "I", "N", "G">>, <<"E", "R", "R", "O", "R">>,
      <<"C", "R", "I", "T", "I", "C", "A", "L">> }
AppTheme ==
    { <<"L", "I", "G", "H", "T">>, <<"D", "A", "R", "K">>, <<"A", "U", "T", "O">> }

(***************************************************************************)
(* int(str): blanks stripped, an optional sign, digits with single         *)
(* underscores between them.                                               *)
(***************************************************************************)
Unsigned(s) ==
    IF s # <<>> /\ Head(s) \in {"+", "-"} THEN Tail(s) ELSE s

IsIntLiteral(s) ==
    LET d == Unsigned(Strip(s)) IN
    /\ d # <<>>
    /\ \A i \in DOMAIN d : IsDigitC(d[i]) \/ d[i] = "_"
    /\ d[1] # "_" /\ d[Len(d)] # "_"
    /\ \A i \in 1..(Len(d) - 1) : ~(d[i] = "_" /\ d[i + 1] = "_")

RECURSIVE DigitsValue(_, _)
DigitsValue(d, acc) ==
    IF d = <<>> THEN acc
    ELSE IF Head(d) = "_" THEN DigitsValue(Tail(d), acc)
    ELSE DigitsValue(Tail(d), 10 * acc + (IndexOf(Head(d), DigitCs) - 1))

IntOf(s) ==
    LET t == Strip(s)
        m == DigitsValue(Unsigned(t), 0)
    IN IF t # <<>> /\ Head(t) = "-" THEN 0 - m ELSE m

(***************************************************************************)
(* ConfigValidator                                                         *)
(***************************************************************************)
ensure_positive_int_nonneg(value) ==
    IF IsIntLiteral(value) /\ IntOf(value) >= 0
    THEN Return(VInt(IntOf(value)))
    ELSE Raise("ValueError")

ensure_positive_int(value) ==
    IF IsIntLiteral(value) /\ IntOf(value) > 0
    THEN Return(VInt(IntOf(value)))
    ELSE Raise("ValueError")

TrueWords ==
    { <<"t", "r", "u", "e">>, <<"y", "e", "s">>, <<"1">>, <<"o", "n">> }
FalseWords ==
    { <<"f", "a", "l", "s", "e">>, <<"n", "o">>, <<"0">>, <<"o", "f", "f">> }

ensure_boolean_exact(value) ==
    IF value \in TrueWords THEN Return(VBool(TRUE))
    ELSE IF value \in FalseWords THEN Return(VBool(FALSE))
    ELSE Raise("ValueError")

ensure_boolean(value) ==
    IF lower(value) \in TrueWords THEN Return(VBool(TRUE))
    ELSE IF lower(value) \in FalseWords THEN Return(VBool(FALSE))
    ELSE Raise("ValueError")

ensure_string(value) == Return(VStr(value))

parse_log_level_exact(level) ==
    IF level \in LogLevel THEN Return(VLogLevel(level)) ELSE Raise("ValueError")

parse_log_level(level) ==
    IF upper(level) \in LogLevel
    THEN Return(VLogLevel(upper(level)))
    ELSE Raise("ValueError")

parse_theme_mode(mode) ==
    IF upper(mode) \in AppTheme
    THEN Return(VAppTheme(upper(mode)))
    ELSE Raise("ValueError")

(***************************************************************************)
(* pathlib: Path(value).expanduser().resolve(), Path.suffix, Path.exists,  *)
(* Path.mkdir(parents=True, exist_ok=True).  The filesystem holds no       *)
(* symbolic links.                                                         *)
(***************************************************************************)
Cwd == <<"/", "w">>
Home == <<"/", "h">>

RECURSIVE SplitAcc(_, _, _)
SplitAcc(s, cur, acc) ==
    IF s = <<>> THEN Append(acc, cur)
    ELSE IF Head(s) = "/" THEN SplitAcc(Tail(s), <<>>, Append(acc, cur))
    ELSE SplitAcc(Tail(s), Append(cur, Head(s)), acc)

\* the components of a path string, empty ones included
Split(s) == SplitAcc(s, <<>>, <<>>)

RECURSIVE NormalizeAcc(_, _)
NormalizeAcc(comps, acc) ==
    IF comps = <<>> THEN acc
    ELSE IF Head(comps) \in {<<>>, <<".">>} THEN NormalizeAcc(Tail(comps), acc)
    ELSE IF Head(comps) = <<".", ".">>
         THEN NormalizeAcc(Tail(comps),
                           IF acc = <<>> THEN acc ELSE SubSeq(acc, 1, Len(acc) - 1))
    ELSE NormalizeAcc(Tail(comps), Append(acc, Head(comps)))

Parts(s) == NormalizeAcc(Split(s), <<>>)

RECURSIVE Join(_)
Join(comps) ==
    IF comps = <<>> THEN <<>> ELSE <<"/">> \o Head(comps) \o Join(Tail(comps))

\* str(path) of an absolute path given by its components
PathStr(comps) == IF comps = <<>> THEN <<"/">> ELSE Join(comps)

expanduser(s) ==
    IF s # <<>> /\ Head(s) = "~" /\ (Len(s) = 1 \/ s[2] = "/")
    THEN Home \o Tail(s)
    ELSE s

\* str(Path(value).expanduser().resolve())
PathResolve(value) ==
    LET e == expanduser(value)
        a == IF e # <<>> /\ Head(e) = "/" THEN e ELSE Cwd \o <<"/">> \o e
    IN PathStr(Parts(a))

\* Path(p).name
PathName(p) == LET c == Parts(p) IN IF c = <<>> THEN <<>> ELSE c[Len(c)]

\* Path(p).suffix: from the last dot of the name, unless the name starts or
\* ends with it
PathSuffix(p) ==
    LET name == PathName(p)
        dots == {i \in DOMAIN name : name[i] = "."}
    IN IF dots = {} THEN <<>>
       ELSE LET j == CHOOSE i \in dots : \A k \in dots : k <= i
            IN IF 1 < j /\ j < Len(name) THEN SubSeq(name, j, Len(name)) ELSE <<>>

Root == <<"/">>

\* Path(p).exists()
Exists(f, p) == p = Root \/ p \in f.dirs \/ p \in f.files

IsDir(f, p) == p = Root \/ p \in f.dirs

\* the proper ancestors of an absolute path, the root excluded
Ancestors(p) ==
    LET c == Parts(p) IN {PathStr(SubSeq(c, 1, k)) : k \in 1..(Len(c) - 1)}

\* Path(p).mkdir(parents=True, exist_ok=True) on a path that does not exist:
\* NotADirectoryError when an ancestor is a regular file
Mkdir(f, p) ==
    IF \E a \in Ancestors(p) : a \in f.files
    THEN [out |-> Raise("OSError"), fs |-> f]
    ELSE [out |-> Return(VNone),
          fs |-> [f EXCEPT !.dirs = @ \cup Ancestors(p) \cup {p}]]

validate_file_path(f, path, must_exist) ==
    IF must_exist /\ ~Exists(f, path)
    THEN [out |-> Raise("ValueError"), fs |-> f]
    ELSE [out |-> Return(VStr(PathStr(Parts(path)))), fs |-> f]

\* a validate_directory_path that returns the path only of a directory it found
validate_directory_path_found_only(f, path, create_if_missing) ==
    IF create_if_missing /\ ~Exists(f, path)
    THEN LET m == Mkdir(f, path)
         IN IF m.out.raised THEN m ELSE [out |-> Return(VNone), fs |-> m.fs]
    ELSE [out |-> Return(VStr(PathStr(Parts(path)))), fs |-> f]

validate_directory_path(f, path, create_if_missing) ==
    IF create_if_missing /\ ~Exists(f, path)
    THEN LET m == Mkdir(f, path)
         IN IF m.out.raised THEN m
            ELSE [out |-> Return(VStr(PathStr(Parts(path)))), fs |-> m.fs]
    ELSE [out |-> Return(VStr(PathStr(Parts(path)))), fs |-> f]

(***************************************************************************)
(* EnvironmentSetup._auto_cast                                             *)
(***************************************************************************)
kLOG_LEVEL == <<"L", "O", "G", "_", "L", "E", "V", "E", "L">>
kTHEME_MODE == <<"T", "H", "E", "M", "E", "_", "M", "O", "D", "E">>

PathMarkers == { <<"P", "A", "T", "H">>, <<"D", "I", "R">>, <<"F", "I", "L", "E">> }

IsPathKey(key) == \E x \in PathMarkers : Contains(key, x)

_auto_cast_int_first(f, key, value) ==
    IF key = kLOG_LEVEL THEN [out |-> parse_log_level(value), fs |-> f]
    ELSE IF key = kTHEME_MODE THEN [out |-> parse_theme_mode(value), fs |-> f]
    ELSE IF ~ensure_positive_int(value).raised
         THEN [out |-> ensure_positive_int(value), fs |-> f]
    ELSE IF ~ensure_boolean(value).raised
         THEN [out |-> ensure_boolean(value), fs |-> f]
    ELSE IF IsPathKey(key)
         THEN LET p == PathResolve(value)
              IN IF PathSuffix(p) # <<>>
                 THEN validate_file_path(f, p, FALSE)
                 ELSE validate_directory_path(f, p, TRUE)
    ELSE [out |-> ensure_string(value), fs |-> f]

_auto_cast(f, key, value) ==
    IF key = kLOG_LEVEL THEN [out |-> parse_log_level(value), fs |-> f]
    ELSE IF key = kTHEME_MODE THEN [out |-> parse_theme_mode(value), fs |-> f]
    ELSE IF ~ensure_boolean(value).raised
         THEN [out |-> ensure_boolean(value), fs |-> f]
    ELSE IF ~ensure_positive_int(value).raised
         THEN [out |-> ensure_positive_int(value), fs |-> f]
    ELSE IF IsPathKey(key)
         THEN LET p == PathResolve(value)
              IN IF PathSuffix(p) # <<>>
                 THEN validate_file_path(f, p, FALSE)
                 ELSE validate_directory_path(f, p, TRUE)
    ELSE [out |-> ensure_string(value), fs |-> f]

(***************************************************************************)
(* Mappings (dict): functions whose domain is the set of keys              *)
(***************************************************************************)
EmptyDict == [k \in {} |-> VNone]
Put(m, k, v) == [x \in DOMAIN m \cup {k} |-> IF x = k THEN v ELSE m[x]]

kIS_DEV_MODE == <<"I", "S", "_", "D", "E", "V", "_", "M", "O", "D", "E">>
kPERSISTENCE_LOGGING == <<"P", "E", "R", "S", "I", "S", "T", "E", "N", "C", "E", "_", "L", "O", "G", "G", "I", "N", "G">>
kPERSISTENCE_LOGGING_TARGET_NAME == <<"P", "E", "R", "S", "I", "S", "T", "E", "N", "C", "E", "_", "L", "O", "G", "G", "I", "N", "G", "_", "T", "A", "R", "G", "E", "T", "_", "N", "A", "M", "E">>
kCONSOLE_OUTPUT_ENABLED == <<"C", "O", "N", "S", "O", "L", "E", "_", "O", "U", "T", "P", "U", "T", "_", "E", "N", "A", "B", "L", "E", "D">>
kCONSOLE_OUTPUT_LEVEL == <<"C", "O", "N", "S", "O", "L", "E", "_", "O", "U", "T", "P", "U", "T", "_", "L", "E", "V", "E", "L">>
sTrue == <<"T", "r", "u", "e">>
sINFO == <<"I", "N", "F", "O">>
sDEBUG == <<"D", "E", "B", "U", "G">>
slogging == <<"l", "o", "g", "g", "i", "n", "g">>
spersistence_logging == <<"p", "e", "r", "s", "i", "s", "t", "e", "n", "c", "e", "_", "l", "o", "g", "g", "i", "n", "g">>
sapp == <<"a", "p", "p">>
sname == <<"n", "a", "m", "e">>

(***************************************************************************)
(* Logger                                                                  *)
(***************************************************************************)
PriorityDebug == 10
PriorityInfo == 20
PriorityWarning == 30
PriorityError == 40
PriorityCritical == 50

_PRIORITY(level) ==
    CASE level = "DEBUG" -> PriorityDebug
      [] level = "INFO" -> PriorityInfo
      [] level = "WARNING" -> PriorityWarning
      [] level = "ERROR" -> PriorityError
      [] level = "CRITICAL" -> PriorityCritical

\* Logger._enabled_for
_enabled_for(lg, level) == _PRIORITY(level) >= _PRIORITY(lg.LEVEL)

\* a call of Logger.debug/info/warning/error/critical: the level, what the
\* message is about, and whether Logger.log lets it through
LogCall(lg, level, msg) ==
    [level |-> level, msg |-> msg, emitted |-> _enabled_for(lg, level)]

\* Logger._truthy
_truthy(val) == lower(Strip(val)) \in TrueWords

\* os.getenv(name, default)
getenv(env, name, default) == IF name \in DOMAIN env THEN env[name] ELSE default

LevelName(s) ==
    CASE s = <<"D", "E", "B", "U", "G">> -> "DEBUG"
      [] s = <<"I", "N", "F", "O">> -> "INFO"
      [] s = <<"W", "A", "R", "N", "I", "N", "G">> -> "WARNING"
      [] s = <<"E", "R", "R", "O", "R">> -> "ERROR"
      [] s = <<"C", "R", "I", "T", "I", "C", "A", "L">> -> "CRITICAL"
      [] OTHER -> "INFO"

LoggerDefaults ==
    [CONSOLE_OUTPUT_ENABLED |-> FALSE, LEVEL |-> "INFO",
     PERSISTENCE_LOGGING |-> FALSE]

\* Logger.configure_from_env: the new class attributes and the calls made
configure_from_env(env) ==
    LET logging == _truthy(getenv(env, kPERSISTENCE_LOGGING, <<>>))
        lg == [CONSOLE_OUTPUT_ENABLED |->
                   _truthy(getenv(env, kCONSOLE_OUTPUT_ENABLED, <<>>)),
               LEVEL |->
                   IF logging THEN "DEBUG"
                   ELSE LevelName(upper(getenv(env, kCONSOLE_OUTPUT_LEVEL, sINFO))),
               PERSISTENCE_LOGGING |-> logging]
    IN [logger |-> lg, reports |-> <<LogCall(lg, "DEBUG", "configured")>>]

\* The log file is the sequence of what was written to it and not truncated
\* since.  The header block is one entry; at stands for the timestamp, the
\* number of the call that wrote the entry.
sUnnamed == <<"<", "U", "n", "n", "a", "m", "e", "d", " ", "A", "p", "p", "l", "i", "c", "a", "t", "i", "o", "n", ">">>
HeaderLines(name, level, at) ==
    [header |-> TRUE, name |-> name, level |-> level, msg |-> "", at |-> at]
PlainText(level, msg, at) ==
    [header |-> FALSE, name |-> <<>>, level |-> level, msg |-> msg, at |-> at]

\* Logger._write_file_header: open(LOG_FILE_PATH, "w") and write the header
_write_file_header(file, env, lg, at) ==
    <<HeaderLines(getenv(env, kPERSISTENCE_LOGGING_TARGET_NAME, sUnnamed), lg.LEVEL, at)>>

\* the file output of Logger.log: open(LOG_FILE_PATH, "a")
Logger_log(file, lg, level, msg, at) ==
    IF _enabled_for(lg, level) /\ lg.PERSISTENCE_LOGGING
    THEN Append(file, PlainText(level, msg, at))
    ELSE file

\* the file after Logger.configure_from_env
Logger_configure_file(file, env, at) ==
    LET lg == configure_from_env(env).logger
        opened == IF lg.PERSISTENCE_LOGGING THEN _write_file_header(file, env, lg, at)
                  ELSE file
    IN Logger_log(opened, lg, "DEBUG", "configured", at)

(***************************************************************************)
(* config.toml as tomllib parses it: a sequence, in file order, of         *)
(* top-level entries [name, table, items, val]; a table's items are        *)
(* [key, val] in file order, a top-level scalar has val.                   *)
(***************************************************************************)
Table(name, items) == [name |-> name, table |-> TRUE, items |-> items, val |-> VNone]
Scalar(name, val) == [name |-> name, table |-> FALSE, items |-> <<>>, val |-> val]
Item(key, val) == [key |-> key, val |-> val]

\* dict.get on the parsed data; the entry, or a sequence that is empty
TomlGet(top, name) == SelectSeq(top, LAMBDA e : e.name = name)
ItemGet(items, key) == SelectSeq(items, LAMBDA i : i.key = key)

\* truth value of a Python object
Truthy(v) ==
    CASE v.t = "bool" -> v.b
      [] v.t = "int" -> v.n # 0
      [] v.t = "str" -> v.s # <<>>
      [] v.t = "None" -> FALSE
      [] OTHER -> TRUE

(***************************************************************************)
(* EnvironmentSetup                                                        *)
(***************************************************************************)
\* _load_toml: None when the file is missing, TOMLDecodeError when corrupt
_load_toml(file) ==
    CASE file.state = "absent" -> [raised |-> FALSE, exc |-> "", none |-> TRUE, top |-> <<>>]
      [] file.state = "corrupt" ->
            [raised |-> TRUE, exc |-> "TOMLDecodeError", none |-> TRUE, top |-> <<>>]
      [] OTHER -> [raised |-> FALSE, exc |-> "", none |-> FALSE, top |-> file.top]

\* load_dotenv(dotenv_path, override=False): a variable the process already
\* has keeps its value
RECURSIVE load_dotenv_override(_, _)
load_dotenv_override(env, entries) ==
    IF entries = <<>> THEN env
    ELSE load_dotenv_override(Put(env, Head(entries).key, Head(entries).val),
                              Tail(entries))

\* the values of the file: a later line for the same name wins
RECURSIVE DotenvValues(_, _)
DotenvValues(acc, entries) ==
    IF entries = <<>> THEN acc
    ELSE DotenvValues(Put(acc, Head(entries).key, Head(entries).val), Tail(entries))

load_dotenv(env, entries) ==
    LET file == DotenvValues([k \in {} |-> <<>>], entries)
    IN [k \in DOMAIN env \cup DOMAIN file |->
            IF k \in DOMAIN env THEN env[k] ELSE file[k]]

\* _configure_logging_from_toml: [raised, exc, environ, logger, reports]
_configure_logging_from_toml(data, env, lg) ==
    IF data.none
    THEN LET e1 == Put(env, kPERSISTENCE_LOGGING, sTrue)
             c == configure_from_env(e1)
         IN [raised |-> FALSE, exc |-> "", environ |-> e1,
             logger |-> c.logger, reports |-> c.reports]
    ELSE
    LET lsec == TomlGet(data.top, slogging)
        asec == TomlGet(data.top, sapp)
    IN  IF lsec # <<>> /\ ~lsec[1].table
        THEN \* .get on a scalar
             [raised |-> TRUE, exc |-> "AttributeError", environ |-> env,
              logger |-> lg, reports |-> <<>>]
        ELSE
        LET pl == IF lsec = <<>> THEN <<>>
                  ELSE ItemGet(lsec[1].items, spersistence_logging)
            persistence_logging == pl # <<>> /\ Truthy(pl[1].val)
        IN  IF ~persistence_logging
            THEN LET c == configure_from_env(env)
                 IN [raised |-> FALSE, exc |-> "", environ |-> env,
                     logger |-> c.logger, reports |-> c.reports]
            ELSE
            LET e1 == Put(env, kPERSISTENCE_LOGGING, sTrue) IN
            IF asec # <<>> /\ ~asec[1].table
            THEN [raised |-> TRUE, exc |-> "AttributeError", environ |-> e1,
                  logger |-> lg, reports |-> <<>>]
            ELSE
            LET nm == IF asec = <<>> THEN <<>> ELSE ItemGet(asec[1].items, sname)
            IN  IF nm = <<>> \/ nm[1].val.t # "str"
                THEN \* os.environ[...] = app_name with app_name no str
                     [raised |-> TRUE, exc |-> "TypeError", environ |-> e1,
                      logger |-> lg, reports |-> <<>>]
                ELSE LET e2 == Put(e1, kPERSISTENCE_LOGGING_TARGET_NAME, nm[1].val.s)
                         c == configure_from_env(e2)
                     IN [raised |-> FALSE, exc |-> "", environ |-> e2,
                         logger |-> c.logger, reports |-> c.reports]

NoSelf == [is_dev |-> FALSE, none |-> TRUE, toml_data |-> <<>>, env_loaded |-> FALSE]

\* __init__: [raised, exc, self, environ, logger, reports]
EnvironmentSetup_init(isBundled, toml, dotenv, env, lg) ==
    LET is_dev == ~isBundled
        data == _load_toml(toml)
        me == [is_dev |-> is_dev, none |-> data.none, toml_data |-> data.top,
               env_loaded |-> FALSE]
    IN  IF data.raised
        THEN [raised |-> TRUE, exc |-> data.exc, self |-> NoSelf, environ |-> env,
              logger |-> lg, reports |-> <<>>]
        ELSE IF is_dev /\ dotenv.exists
        THEN LET e1 == load_dotenv(env, dotenv.entries)
                 c == configure_from_env(e1)
             IN [raised |-> FALSE, exc |-> "",
                 self |-> [me EXCEPT !.env_loaded = TRUE], environ |-> e1,
                 logger |-> c.logger, reports |-> c.reports]
        ELSE IF is_dev
        THEN [raised |-> FALSE, exc |-> "", self |-> me, environ |-> env,
              logger |-> lg, reports |-> <<LogCall(lg, "WARNING", "env_not_found")>>]
        ELSE LET r == _configure_logging_from_toml(data, env, lg)
             IN [raised |-> r.raised, exc |-> r.exc,
                 self |-> IF r.raised THEN NoSelf ELSE me,
                 environ |-> r.environ, logger |-> r.logger, reports |-> r.reports]

FlatKey_section_only(section, key) == upper(section) \o <<"_">> \o key

\* "{section.upper()}_{key.upper()}"
FlatKey(section, key) == upper(section) \o <<"_">> \o upper(key)

RECURSIVE FlattenItems(_, _, _)
FlattenItems(cfg, section, items) ==
    IF items = <<>> THEN cfg
    ELSE FlattenItems(Put(cfg, FlatKey(section, Head(items).key), Head(items).val),
                      section, Tail(items))

\* the flattening loop: AttributeError at the first top-level entry that is
\* no table
RECURSIVE FlattenTop(_, _)
FlattenTop(cfg, top) ==
    IF top = <<>> THEN [raised |-> FALSE, exc |-> "", config |-> cfg]
    ELSE IF ~Head(top).table
    THEN [raised |-> TRUE, exc |-> "AttributeError", config |-> cfg]
    ELSE FlattenTop(FlattenItems(cfg, Head(top).name, Head(top).items), Tail(top))

RECURSIVE MergeEnv_drop(_, _, _, _)
MergeEnv_drop(cfg, f, env, names) ==
    IF names = {} THEN [config |-> cfg, fs |-> f]
    ELSE LET key == CHOOSE k \in names : TRUE
             r == _auto_cast(f, key, env[key])
         IN  IF ~isupper(key) \/ r.out.raised
             THEN MergeEnv_drop(cfg, r.fs, env, names \ {key})
             ELSE MergeEnv_drop(Put(cfg, key, r.out.val), r.fs, env, names \ {key})

\* the merge loop over os.environ.items().  The casts of different names do
\* not interfere (a cast only adds directories, and fails only below a
\* regular file), so the order of iteration is immaterial.
RECURSIVE MergeEnv(_, _, _, _)
MergeEnv(cfg, f, env, names) ==
    IF names = {} THEN [config |-> cfg, fs |-> f]
    ELSE LET key == CHOOSE k \in names : TRUE
             r == _auto_cast(f, key, env[key])
         IN  IF ~isupper(key) THEN MergeEnv(cfg, f, env, names \ {key})
             ELSE IF r.out.raised
             THEN MergeEnv(Put(cfg, key, VStr(env[key])), r.fs, env, names \ {key})
             ELSE MergeEnv(Put(cfg, key, r.out.val), r.fs, env, names \ {key})

\* a load that writes the meta flag before it flattens and merges
load_flag_first(me, f, env, lg) ==
    IF me.none
    THEN [raised |-> FALSE, exc |-> "", config |-> EmptyDict, fs |-> f,
          reports |-> <<LogCall(lg, "ERROR", "toml_failed")>>]
    ELSE
    LET flat == FlattenTop(Put(EmptyDict, kIS_DEV_MODE, VBool(me.is_dev)), me.toml_data) IN
    IF flat.raised
    THEN [raised |-> TRUE, exc |-> flat.exc, config |-> EmptyDict, fs |-> f,
          reports |-> <<>>]
    ELSE
    LET m == IF me.env_loaded THEN MergeEnv(flat.config, f, env, DOMAIN env)
             ELSE [config |-> flat.config, fs |-> f]
    IN [raised |-> FALSE, exc |-> "", config |-> m.config, fs |-> m.fs, reports |-> <<>>]

\* load(): [raised, exc, config, fs, reports]
load(me, f, env, lg) ==
    IF me.none
    THEN [raised |-> FALSE, exc |-> "", config |-> EmptyDict, fs |-> f,
          reports |-> <<LogCall(lg, "ERROR", "toml_failed")>>]
    ELSE
    LET flat == FlattenTop(EmptyDict, me.toml_data) IN
    IF flat.raised
    THEN [raised |-> TRUE, exc |-> flat.exc, config |-> EmptyDict, fs |-> f,
          reports |-> <<>>]
    ELSE
    LET m == IF me.env_loaded THEN MergeEnv(flat.config, f, env, DOMAIN env)
             ELSE [config |-> flat.config, fs |-> f]
    IN [raised |-> FALSE, exc |-> "",
        config |-> Put(m.config, kIS_DEV_MODE, VBool(me.is_dev)),
        fs |-> m.fs, reports |-> <<>>]

(***************************************************************************)
(* _SafeConfig.get(key, default=None).  A default that is not given is     *)
(* None, as is one given as None.                                          *)
(***************************************************************************)
_SafeConfig_get_default_first(cfg, lg, key, default) ==
    LET value == IF key \in DOMAIN cfg /\ default = VNone THEN cfg[key] ELSE default
    IN [value |-> value,
        reports |->
            IF key \in DOMAIN cfg THEN <<LogCall(lg, "DEBUG", "retrieved")>>
            ELSE IF default = VNone THEN <<LogCall(lg, "ERROR", "missing")>>
            ELSE <<LogCall(lg, "WARNING", "default_used")>>]

\* "elif not default": every falsy default counts as no default
_SafeConfig_get_falsy(cfg, lg, key, default) ==
    LET value == IF key \in DOMAIN cfg THEN cfg[key] ELSE default
    IN [value |-> value,
        reports |->
            IF key \in DOMAIN cfg THEN <<LogCall(lg, "DEBUG", "retrieved")>>
            ELSE IF default = VNone \/ default = VBool(FALSE)
                 THEN <<LogCall(lg, "ERROR", "missing")>>
            ELSE <<LogCall(lg, "WARNING", "default_used")>>]

\* every miss is reported as a warning
_SafeConfig_get_warn(cfg, lg, key, default) ==
    LET value == IF key \in DOMAIN cfg THEN cfg[key] ELSE default
    IN [value |-> value,
        reports |->
            IF key \in DOMAIN cfg THEN <<LogCall(lg, "DEBUG", "retrieved")>>
            ELSE <<LogCall(lg, "WARNING", "default_used")>>]

_SafeConfig_get(cfg, lg, key, default) ==
    LET value == IF key \in DOMAIN cfg THEN cfg[key] ELSE default
    IN [value |-> value,
        reports |->
            IF key \in DOMAIN cfg THEN <<LogCall(lg, "DEBUG", "retrieved")>>
            ELSE IF default = VNone THEN <<LogCall(lg, "ERROR", "missing")>>
            ELSE <<LogCall(lg, "WARNING", "default_used")>>]

(***************************************************************************)
(* Inputs: names, raw strings, files and environments                      *)
(***************************************************************************)
kAPP_NAME == <<"A", "P", "P", "_", "N", "A", "M", "E">>
kLOG_DIR == <<"L", "O", "G", "_", "D", "I", "R">>
kLOG_FILE == <<"L", "O", "G", "_", "F", "I", "L", "E">>
klog_dir == <<"l", "o", "g", "_", "d", "i", "r">>
kWINDOW_WIDTH == <<"W", "I", "N", "D", "O", "W", "_", "W", "I", "D", "T", "H">>
kapp_name == <<"a", "p", "p", "_", "n", "a", "m", "e">>
kUNSET_KEY == <<"U", "N", "S", "E", "T", "_", "K", "E", "Y">>
sAPP == <<"A", "P", "P">>
swindow == <<"w", "i", "n", "d", "o", "w">>
sWidth == <<"W", "i", "d", "t", "h">>
slog == <<"l", "o", "g">>
slevel == <<"l", "e", "v", "e", "l">>
sdir == <<"d", "i", "r">>
sis == <<"i", "s">>
sdev_mode == <<"d", "e", "v", "_", "m", "o", "d", "e">>
stitle == <<"t", "i", "t", "l", "e">>
sDemo == <<"D", "e", "m", "o">>
sA == <<"A">>
sB == <<"B">>
sOver == <<"O", "v", "e", "r">>
sShell == <<"S", "h", "e", "l", "l">>
sneon == <<"n", "e", "o", "n">>
slow == <<"l", "o", "w">>
sfallback == <<"f", "a", "l", "l", "b", "a", "c", "k">>
sdebug == <<"d", "e", "b", "u", "g">>
sinfo == <<"i", "n", "f", "o">>
sbogus == <<"b", "o", "g", "u", "s">>
sdark == <<"d", "a", "r", "k">>
sOn == <<"O", "n">>
s1 == <<"1">>
syes == <<"y", "e", "s">>
sTRUE == <<"T", "R", "U", "E">>
soff == <<"o", "f", "f">>
s0 == <<"0">>
sno == <<"n", "o">>
sFalse == <<"F", "a", "l", "s", "e">>
sfalse == <<"f", "a", "l", "s", "e">>
s42 == <<"4", "2">>
s1024 == <<"1", "0", "2", "4">>
sNeg5 == <<"-", "5">>
sPlus7 == <<"+", "7">>
s4u2 == <<"4", "_", "2">>
sSp42 == <<" ", "4", "2">>
pTmp == <<"/", "t", "m", "p">>
pTmpX == <<"/", "t", "m", "p", "/", "x">>
pTmpXLog == <<"/", "t", "m", "p", "/", "x", ".", "l", "o", "g">>
slogs == <<"l", "o", "g", "s">>
pTildeD == <<"~", "/", "d">>
pTmpF == <<"/", "t", "m", "p", "/", "f">>
pTmpFSub == <<"/", "t", "m", "p", "/", "f", "/", "s", "u", "b">>
pTmpHidden == <<"/", "t", "m", "p", "/", ".", "h", "i", "d", "d", "e", "n">>
pDotDot == <<"/", "t", "m", "p", "/", "a", "/", ".", ".", "/", "x">>
sEmpty == <<>>
s00 == <<"0", "0">>
k1_2 == <<"1", "_", "2">>
s2 == <<"2">>

CastKeys == {kLOG_LEVEL, kTHEME_MODE, kAPP_NAME, kLOG_DIR, kLOG_FILE, klog_dir}

CastValues ==
    {sdebug, sbogus, sdark, sOn, s1, syes, sTRUE, soff, s0,
     sno, sFalse, s42, sNeg5, sPlus7, s4u2, sSp42, pTmpX, pTmpXLog, slogs,
     pTildeD, pTmpF, pTmpFSub, pTmpHidden, pDotDot, sEmpty, s00}

Fs0 == [dirs |-> {pTmp, Cwd, Home}, files |-> {pTmpF}]
InitFs == {Fs0, [Fs0 EXCEPT !.dirs = @ \cup {pTmpX}]}

TomlAbsent == [state |-> "absent", top |-> <<>>]
TomlCorrupt == [state |-> "corrupt", top |-> <<>>]
TomlPlain ==
    [state |-> "ok",
     top |-> << Table(sapp, <<Item(sname, VStr(sDemo))>>),
                Table(swindow, <<Item(sWidth, VInt(800))>>),
                Table(slog, <<Item(slevel, VStr(sinfo)), Item(sdir, VStr(slogs))>>) >>]
TomlCollide ==
    [state |-> "ok",
     top |-> << Table(sapp, <<Item(sname, VStr(sA))>>),
                Table(sAPP, <<Item(sname, VStr(sB))>>) >>]
TomlDevMode ==
    [state |-> "ok",
     top |-> << Table(sis, <<Item(sdev_mode, VStr(sno))>>),
                Table(sapp, <<Item(sname, VStr(sDemo))>>),
                Table(s1, <<Item(s2, VStr(sB))>>) >>]
TomlScalar ==
    [state |-> "ok",
     top |-> << Table(sapp, <<Item(sname, VStr(sDemo))>>),
                Scalar(stitle, VStr(sDemo)) >>]
TomlLogNoName ==
    [state |-> "ok",
     top |-> << Table(slogging, <<Item(spersistence_logging, VBool(TRUE))>>),
                Table(swindow, <<Item(sWidth, VInt(800))>>) >>]
TomlLogNamed ==
    [state |-> "ok",
     top |-> << Table(slogging, <<Item(spersistence_logging, VBool(TRUE))>>),
                Table(sapp, <<Item(sname, VStr(sDemo))>>) >>]

TomlFiles ==
    {TomlAbsent, TomlCorrupt, TomlPlain, TomlCollide, TomlDevMode, TomlScalar,
     TomlLogNoName, TomlLogNamed}

EnvAbsent == [exists |-> FALSE, entries |-> <<>>]
EnvPlain ==
    [exists |-> TRUE,
     entries |-> << Item(kAPP_NAME, sOver), Item(kLOG_LEVEL, sdebug),
                    Item(kWINDOW_WIDTH, s1024) >>]
EnvBad ==
    [exists |-> TRUE,
     entries |-> << Item(kLOG_LEVEL, sbogus), Item(kLOG_DIR, pTmpFSub),
                    Item(kapp_name, slow) >>]
EnvDevMode ==
    [exists |-> TRUE,
     entries |-> << Item(kIS_DEV_MODE, sfalse), Item(kAPP_NAME, s1),
                    Item(kLOG_DIR, pTmpX), Item(k1_2, sOver) >>]

EnvFiles == {EnvAbsent, EnvPlain, EnvBad, EnvDevMode}

NoEnviron == [k \in {} |-> <<>>]
Environs ==
    { NoEnviron,
      [k \in {kAPP_NAME} |-> sShell],
      [k \in {kTHEME_MODE, kLOG_FILE} |-> IF k = kTHEME_MODE THEN sneon ELSE pTmpXLog],
      [k \in {kPERSISTENCE_LOGGING} |-> s1] }

GetKeys == {kAPP_NAME, kLOG_LEVEL, kIS_DEV_MODE, kUNSET_KEY}
GetDefaults == {VNone, VStr(sfallback), VBool(FALSE)}

(***************************************************************************)
(* Resources: category directories, the file index and its accessors       *)
(***************************************************************************)
sRESOURCES_ == <<"R", "E", "S", "O", "U", "R", "C", "E", "S", "_">>
sresources == <<"r", "e", "s", "o", "u", "r", "c", "e", "s">>
sbase == <<"b", "a", "s", "e">>

\* sys._MEIPASS, when the attribute is defined
MeiPass == <<"/", "b">>

\* str.startswith
StartsWith(s, p) == Len(s) >= Len(p) /\ SubSeq(s, 1, Len(p)) = p

\* s.replace(old, "")
RECURSIVE Remove(_, _)
Remove(s, old) ==
    IF s = <<>> THEN <<>>
    ELSE IF StartsWith(s, old) THEN Remove(SubSeq(s, Len(old) + 1, Len(s)), old)
    ELSE <<Head(s)>> \o Remove(Tail(s), old)

IsAbsolute(s) == s # <<>> /\ Head(s) = "/"

\* str(Path(a) / b) for an absolute a
PathJoin(a, b) == IF IsAbsolute(b) THEN PathStr(Parts(b)) ELSE PathStr(Parts(a \o <<"/">> \o b))

\* os.path.join(a, b)
os_path_join(a, b) ==
    IF IsAbsolute(b) \/ a = <<>> THEN b
    ELSE IF a[Len(a)] = "/" THEN a \o b
    ELSE a \o <<"/">> \o b

\* os.path.abspath(p): normpath(join(cwd, p))
os_path_abspath(p) == PathStr(Parts(os_path_join(Cwd, p)))

\* os.path.exists(p); a relative p is taken from the working directory
os_path_exists(f, p) == p # <<>> /\ Exists(f, os_path_abspath(p))

\* the directory that holds an absolute path
Parent(p) == LET c == Parts(p) IN PathStr(SubSeq(c, 1, Len(c) - 1))

\* x is an entry of the directory d
IsEntry(x, d) ==
    LET prefix == IF d = Root THEN d ELSE d \o <<"/">>
    IN /\ Len(x) > Len(prefix)
       /\ SubSeq(x, 1, Len(prefix)) = prefix
       /\ \A i \in (Len(prefix) + 1)..Len(x) : x[i] # "/"

\* os.walk(d): the files of d and, recursively, of its subdirectories
RECURSIVE Walk(_, _)
Walk(f, d) ==
    {x \in f.files : IsEntry(x, d)}
        \cup UNION {Walk(f, sub) : sub \in {x \in f.dirs : IsEntry(x, d)}}

\* Resources._get_base_path: sys._MEIPASS is read only in a frozen process
_get_base_path(isBundled, hasMeiPass) ==
    IF isBundled
    THEN IF hasMeiPass
         THEN [raised |-> FALSE, exc |-> "", path |-> PathJoin(MeiPass, sresources)]
         ELSE [raised |-> TRUE, exc |-> "AttributeError", path |-> <<>>]
    ELSE [raised |-> FALSE, exc |-> "", path |-> PathJoin(Cwd, sresources)]

\* Resources._list_files, as a set
_list_files(f, directory) ==
    IF ~os_path_exists(f, directory) \/ directory \in f.files THEN {}
    ELSE Walk(f, directory)

\* os.makedirs(p, exist_ok=True): FileExistsError or NotADirectoryError when p
\* or one of its ancestors is a regular file
makedirs(f, p) ==
    IF p \in f.files THEN [out |-> Raise("OSError"), fs |-> f]
    ELSE IF IsDir(f, p) THEN [out |-> Return(VNone), fs |-> f]
    ELSE Mkdir(f, p)

\* the dict comprehension of initialize: the RESOURCES_ entries of cfg, in
\* order, under their category names; a repeated name keeps its place and
\* takes the later value
RECURSIVE CategoryDefs(_, _)
CategoryDefs(items, acc) ==
    IF items = <<>> THEN acc
    ELSE LET k == Head(items).key
             name == lower(Remove(k, sRESOURCES_))
             seen == {i \in DOMAIN acc : acc[i].key = name}
         IN IF ~StartsWith(k, sRESOURCES_) THEN CategoryDefs(Tail(items), acc)
            ELSE IF seen = {}
                 THEN CategoryDefs(Tail(items),
                                   Append(acc, [key |-> name, path |-> Head(items).val]))
            ELSE CategoryDefs(Tail(items),
                              [i \in DOMAIN acc |->
                                  IF i \in seen
                                  THEN [key |-> name, path |-> Head(items).val]
                                  ELSE acc[i]])

\* the directory of a category outside a bundle
DevDir_joined(base, path) == IF IsAbsolute(path) THEN PathStr(Parts(path)) ELSE PathJoin(base, path)

DevDir(base, path) ==
    IF IsAbsolute(path) THEN PathStr(Parts(path)) ELSE PathJoin(base, PathName(path))

\* the directory of a category
CategoryDir_declared(isBundled, base, key, path) == DevDir(base, path)

CategoryDir(isBundled, base, key, path) ==
    IF isBundled THEN PathJoin(base, key) ELSE DevDir(base, path)

\* the state of the class: its category definitions, the attributes named
\* after categories, the index and the categories that have accessors
NoResources ==
    [cfg |-> <<>>, attrs |-> EmptyDict, resources |-> EmptyDict, accessors |-> {}]

\* the loop of initialize over cls._cfg.items(); st carries the class, the
\* filesystem, the Logger calls and the categories indexed by this call
RECURSIVE IndexLoop(_, _, _, _, _)
IndexLoop(defs, isBundled, base, lg, st) ==
    IF defs = <<>> \/ st.raised THEN st
    ELSE LET key == Head(defs).key
             path == Head(defs).path
         IN IF key = sbase
            THEN IndexLoop(Tail(defs), isBundled, base, lg,
                           [st EXCEPT !.cls.attrs = Put(@, key, base)])
            ELSE IF ~isBundled /\ path.t # "str"
            THEN [st EXCEPT !.raised = TRUE, !.exc = "TypeError"]
            ELSE LET abs_path == CategoryDir(isBundled, base, key, path.s)
                     named == [st EXCEPT !.cls.attrs = Put(@, key, abs_path)]
                     made == IF isBundled THEN [out |-> Return(VNone), fs |-> st.fs]
                             ELSE makedirs(st.fs, abs_path)
                 IN IF made.out.raised
                    THEN [named EXCEPT !.raised = TRUE, !.exc = made.out.exc]
                    ELSE IndexLoop(Tail(defs), isBundled, base, lg,
                             [named EXCEPT
                                 !.fs = made.fs,
                                 !.cls.resources = Put(@, key, _list_files(made.fs, abs_path)),
                                 !.cls.accessors = @ \cup {key},
                                 !.done = @ \cup {key},
                                 !.reports = Append(@, LogCall(lg, "DEBUG", "indexed"))])

\* Resources.initialize(cfg); given is FALSE for cfg=None
initialize(cls, isBundled, hasMeiPass, f, lg, given, items) ==
    LET defs == IF given THEN CategoryDefs(items, <<>>) ELSE cls.cfg
        st0 == [cls |-> [cls EXCEPT !.cfg = defs], fs |-> f, reports |-> <<>>,
                done |-> {}, raised |-> FALSE, exc |-> ""]
        base == _get_base_path(isBundled, hasMeiPass)
    IN IF ~given /\ cls.cfg = <<>>
       THEN [st0 EXCEPT !.reports = <<LogCall(lg, "ERROR", "no_configuration")>>]
       ELSE IF base.raised THEN [st0 EXCEPT !.raised = TRUE, !.exc = base.exc]
       ELSE IndexLoop(defs, isBundled, base.path, lg, st0)

\* get_all_in_<name>(), as a set
get_all_in_live(cls, f, name) == _list_files(f, cls.attrs[name])

get_all_in(cls, f, name) ==
    IF name \in DOMAIN cls.resources THEN cls.resources[name] ELSE {}

\* get_in_<name>(path): the outcome and the Logger calls
get_in_category_first(cls, isBundled, hasMeiPass, f, lg, name, path) ==
    LET candidate == os_path_join(cls.attrs[name], path)
        found(p) == [out |-> Return(VStr(os_path_abspath(p))), reports |-> <<>>]
    IN IF os_path_exists(f, candidate) THEN found(candidate)
       ELSE IF os_path_exists(f, path) THEN found(path)
       ELSE [out |-> Raise("FileNotFoundError"),
             reports |-> <<LogCall(lg, "ERROR", "resource_not_found")>>]

get_in(cls, isBundled, hasMeiPass, f, lg, name, path) ==
    LET base_path == cls.attrs[name]
        candidate == os_path_join(base_path, path)
        bundle == _get_base_path(isBundled, hasMeiPass)
        found(p) == [out |-> Return(VStr(os_path_abspath(p))), reports |-> <<>>]
        missing == [out |-> Raise("FileNotFoundError"),
                    reports |-> <<LogCall(lg, "ERROR", "resource_not_found")>>]
    IN IF os_path_exists(f, path) THEN found(path)
       ELSE IF os_path_exists(f, candidate) THEN found(candidate)
       ELSE IF ~isBundled THEN missing
       ELSE IF bundle.raised THEN [out |-> Raise(bundle.exc), reports |-> <<>>]
       ELSE IF os_path_exists(f, os_path_join(bundle.path, path))
            THEN found(os_path_join(bundle.path, path))
       ELSE missing

(***************************************************************************)
(* Inputs of Resources: category definitions, files, lookup arguments      *)
(***************************************************************************)
kRESOURCES_BASE == <<"R", "E", "S", "O", "U", "R", "C", "E", "S", "_", "B", "A", "S", "E">>
kRESOURCES_ICONS == <<"R", "E", "S", "O", "U", "R", "C", "E", "S", "_", "I", "C", "O", "N", "S">>
kRESOURCES_DATA == <<"R", "E", "S", "O", "U", "R", "C", "E", "S", "_", "D", "A", "T", "A">>
kRESOURCES_FONTS == <<"R", "E", "S", "O", "U", "R", "C", "E", "S", "_", "F", "O", "N", "T", "S">>
sicons == <<"i", "c", "o", "n", "s">>
sfonts == <<"f", "o", "n", "t", "s">>
sdata == <<"d", "a", "t", "a">>
pTmpData == <<"/", "t", "m", "p", "/", "d", "a", "t", "a">>
sAssetsFonts == <<"a", "s", "s", "e", "t", "s", "/", "f", "o", "n", "t", "s">>
sAPng == <<"a", ".", "p", "n", "g">>
sQPng == <<"q", ".", "p", "n", "g">>
snope == <<"n", "o", "p", "e">>
pRes == <<"/", "w", "/", "r", "e", "s", "o", "u", "r", "c", "e", "s">>
pResIcons == <<"/", "w", "/", "r", "e", "s", "o", "u", "r", "c", "e", "s", "/", "i", "c", "o", "n", "s">>
pResIconsSys == <<"/", "w", "/", "r", "e", "s", "o", "u", "r", "c", "e", "s", "/", "i", "c", "o", "n", "s", "/", "s", "y", "s">>
pResIconsA == <<"/", "w", "/", "r", "e", "s", "o", "u", "r", "c", "e", "s", "/", "i", "c", "o", "n", "s", "/", "a", ".", "p", "n", "g">>
pResIconsSysE == <<"/", "w", "/", "r", "e", "s", "o", "u", "r", "c", "e", "s", "/", "i", "c", "o", "n", "s", "/", "s", "y", "s", "/", "e", ".", "p", "n", "g">>
pResIconsN == <<"/", "w", "/", "r", "e", "s", "o", "u", "r", "c", "e", "s", "/", "i", "c", "o", "n", "s", "/", "n", ".", "p", "n", "g">>
pCwdA == <<"/", "w", "/", "a", ".", "p", "n", "g">>
pBundleRes == <<"/", "b", "/", "r", "e", "s", "o", "u", "r", "c", "e", "s">>
pBundleIcons == <<"/", "b", "/", "r", "e", "s", "o", "u", "r", "c", "e", "s", "/", "i", "c", "o", "n", "s">>
pBundleIconsA == <<"/", "b", "/", "r", "e", "s", "o", "u", "r", "c", "e", "s", "/", "i", "c", "o", "n", "s", "/", "a", ".", "p", "n", "g">>
pBundleQ == <<"/", "b", "/", "r", "e", "s", "o", "u", "r", "c", "e", "s", "/", "q", ".", "p", "n", "g">>

FsRes ==
    [dirs |-> {pTmp, Cwd, Home, MeiPass, pRes, pResIcons, pResIconsSys, pBundleRes,
               pBundleIcons},
     files |-> {pTmpF, pResIconsA, pResIconsSysE, pBundleIconsA, pBundleQ}]

\* files that appear and disappear while the program runs
TogglePaths == {pResIconsN, pCwdA, pBundleIconsA}

DefsMain ==
    <<Item(kAPP_NAME, VStr(sDemo)), Item(kRESOURCES_BASE, VStr(sresources)),
      Item(kRESOURCES_ICONS, VStr(sicons)), Item(kRESOURCES_DATA, VStr(pTmpData))>>
DefsOther ==
    <<Item(kRESOURCES_FONTS, VStr(sAssetsFonts)), Item(kRESOURCES_ICONS, VStr(pTmpX))>>
DefsBlocked ==
    <<Item(kRESOURCES_ICONS, VStr(sicons)), Item(kRESOURCES_DATA, VStr(pTmpFSub))>>
CategoryItems == {DefsMain, DefsOther, DefsBlocked}

CategoryNames == {sicons, sfonts, sdata}
LookupPaths == {sAPng, sQPng, pTmpF, snope}

(***************************************************************************)
(* ThemeManager: the theme state and the configuration it keeps            *)
(***************************************************************************)
kWINDOW_THEME_MODE == <<"W", "I", "N", "D", "O", "W", "_", "T", "H", "E", "M", "E", "_", "M", "O", "D", "E">>
sAUTO == <<"A", "U", "T", "O">>
sLIGHT == <<"L", "I", "G", "H", "T">>
sDARK == <<"D", "A", "R", "K">>

\* AppTheme.DARK if is_system_dark_mode() else AppTheme.LIGHT
SystemTheme(dark) == IF dark THEN sDARK ELSE sLIGHT

\* the class attributes: _instance, _config (shared: it is the object that
\* Config.get returned, own: the dict it is otherwise), _current_theme and
\* _last_system_theme (<<>> for None), and whether the timer runs
NoThemeManager ==
    [instance |-> FALSE, shared |-> FALSE, own |-> EmptyDict, current |-> sAUTO,
     last |-> <<>>, timer |-> FALSE]

\* the palette set and the signals emitted by a call
NoThemeOut == [raised |-> FALSE, exc |-> "", palette |-> "", emitted |-> <<>>]

\* ThemeManager.apply_theme: the palette it sets ("" for none) and its
\* Logger calls
apply_theme(t, hasApp, lg) ==
    LET theme == IF t.current = sAUTO THEN t.last ELSE t.current
    IN IF ~hasApp
       THEN [palette |-> "", reports |-> <<LogCall(lg, "ERROR", "no_qapplication")>>]
       ELSE IF theme = sDARK
       THEN [palette |-> "DARK", reports |-> <<LogCall(lg, "DEBUG", "applied_dark")>>]
       ELSE [palette |-> "LIGHT", reports |-> <<LogCall(lg, "DEBUG", "applied_light")>>]

\* ThemeManager.set_theme(theme): the class, the mapping of Config.get, and
\* what the call did
set_theme(t, cfg, dark, hasApp, lg, theme) ==
    IF theme # t.current \/ theme = sAUTO
    THEN LET t1 == [t EXCEPT !.current = theme,
                             !.own = IF t.shared THEN @
                                     ELSE Put(@, kWINDOW_THEME_MODE, VStr(theme))]
             cfg1 == IF t.shared THEN Put(cfg, kWINDOW_THEME_MODE, VStr(theme)) ELSE cfg
             t2 == IF theme = sAUTO THEN [t1 EXCEPT !.last = SystemTheme(dark)] ELSE t1
             a == apply_theme(t2, hasApp, lg)
         IN [tm |-> t2, config |-> cfg1, palette |-> a.palette,
             emitted |-> IF t2.instance THEN <<theme>> ELSE <<>>,
             reports |-> a.reports]
    ELSE [tm |-> t, config |-> cfg, palette |-> "", emitted |-> <<>>, reports |-> <<>>]

\* a toggle_theme that takes AUTO for light
toggle_theme_auto_is_light(t, cfg, dark, hasApp, lg) ==
    set_theme(t, cfg, dark, hasApp, lg, IF t.current = sDARK THEN sLIGHT ELSE sDARK)

\* ThemeManager.toggle_theme
toggle_theme(t, cfg, dark, hasApp, lg) ==
    LET theme == IF t.current = sAUTO
                 THEN IF t.last = sLIGHT THEN sDARK ELSE sLIGHT
                 ELSE IF t.current = sDARK THEN sLIGHT ELSE sDARK
    IN set_theme(t, cfg, dark, hasApp, lg, theme)

\* ThemeManager.get_effective_theme(); <<>> is None
get_effective_theme(t) == IF t.current = sAUTO THEN t.last ELSE t.current

\* ThemeManager.current_theme and ThemeManager.last_system_theme read on the
\* class: the property objects, not the values they return on an instance
PropertyObject == <<"property">>
ThemeManager_current_theme == PropertyObject
ThemeManager_last_system_theme == PropertyObject

\* _check_system_theme_change, the slot of the one-second timer
_check_system_theme_change(t, cfg, dark, hasApp, lg) ==
    LET current_system_theme == SystemTheme(dark)
        nothing == [tm |-> t, config |-> cfg, palette |-> "", emitted |-> <<>>,
                    reports |-> <<>>]
    IN IF ThemeManager_current_theme # sAUTO THEN nothing
       ELSE IF current_system_theme # ThemeManager_last_system_theme
       THEN set_theme([t EXCEPT !.last = current_system_theme], cfg, dark, hasApp, lg,
                      sAUTO)
       ELSE nothing

\* ThemeManager(config); withConfig is FALSE for ThemeManager()
ThemeManager_init(t, cfg, withConfig, dark, hasApp, lg) ==
    LET shared == withConfig /\ DOMAIN cfg # {}
        got == IF shared
               THEN _SafeConfig_get(cfg, lg, kWINDOW_THEME_MODE, VStr(sAUTO))
               ELSE [value |-> VStr(sAUTO), reports |-> <<>>]
        t0 == [t EXCEPT !.instance = TRUE, !.shared = shared, !.own = EmptyDict]
        mode == upper(got.value.s)
        t1 == [t0 EXCEPT !.current = IF mode \in AppTheme THEN mode ELSE sLIGHT,
                         !.last = SystemTheme(dark),
                         !.timer = TRUE]
        a == apply_theme(t1, hasApp, lg)
    IN IF t.instance
       THEN [raised |-> FALSE, exc |-> "", tm |-> t, palette |-> "", reports |-> <<>>]
       ELSE IF got.value.t # "str"
       THEN [raised |-> TRUE, exc |-> "AttributeError", tm |-> t0, palette |-> "",
             reports |-> got.reports]
       ELSE [raised |-> FALSE, exc |-> "", tm |-> t1, palette |-> a.palette,
             reports |-> got.reports
                 \o (IF mode \in AppTheme THEN <<>>
                     ELSE <<LogCall(lg, "ERROR", "unmappable_theme"),
                            LogCall(lg, "DEBUG", "fallback_light")>>)
                 \o a.reports]

(***************************************************************************)
(* Config.get: the singleton                                               *)
(***************************************************************************)
\* Config._instance: none, or the object made by the id-th EnvironmentSetup
NoInstance == [none |-> TRUE, id |-> 0]

\* the end of Config.get when _instance is None, c being the outcome of
\* EnvironmentSetup() and l that of load(): [raised, exc, instance, config,
\* self, environ, logger, fs, reports, loads], loads being the
\* EnvironmentSetup objects constructed
Config_store(inst, cfg, loads, f, c, l) ==
    LET base == [raised |-> FALSE, exc |-> "", instance |-> inst, config |-> cfg,
                 self |-> c.self, environ |-> c.environ, logger |-> c.logger, fs |-> f,
                 reports |-> c.reports, loads |-> 1]
    IN IF c.raised THEN [base EXCEPT !.raised = TRUE, !.exc = c.exc]
       ELSE IF l.raised
       THEN [base EXCEPT !.raised = TRUE, !.exc = l.exc, !.fs = l.fs,
                         !.reports = c.reports \o l.reports]
       ELSE [base EXCEPT
                !.instance = [none |-> FALSE, id |-> loads + 1],
                !.config = l.config,
                !.fs = l.fs,
                !.reports = c.reports \o l.reports
                                \o <<LogCall(c.logger, "DEBUG", "loaded_configuration")>>]

\* environment.load() on the object the constructor made
Config_load(inst, cfg, loads, f, c) ==
    Config_store(inst, cfg, loads, f, c, load(c.self, f, c.environ, c.logger))

\* a Config.get that does not look at _instance
Config_get_reload(inst, cfg, loads, isBundled, toml, dotenv, env, f, lg) ==
    Config_load(inst, cfg, loads, f, EnvironmentSetup_init(isBundled, toml, dotenv, env, lg))

\* Config.get()
Config_get(inst, cfg, loads, isBundled, toml, dotenv, env, f, lg) ==
    IF ~inst.none
    THEN [raised |-> FALSE, exc |-> "", instance |-> inst, config |-> cfg,
          self |-> NoSelf, environ |-> env, logger |-> lg, fs |-> f,
          reports |-> <<>>, loads |-> 0]
    ELSE Config_load(inst, cfg, loads, f,
                     EnvironmentSetup_init(isBundled, toml, dotenv, env, lg))

(***************************************************************************)
(* Configuration resolution: construct EnvironmentSetup, load, then read   *)
(***************************************************************************)
NoCast ==
    /\ castIn = [key |-> <<>>, value |-> <<>>]
    /\ castOut = Return(VNone)
    /\ nCasts = 0

NoGet ==
    /\ getIn = [key |-> <<>>, given |-> FALSE, default |-> VNone]
    /\ getOut = VNone

NoResIn == [op |-> "", given |-> FALSE, items |-> <<>>, name |-> <<>>, path |-> <<>>]
NoResOut == [out |-> Return(VNone), list |-> {}, all |-> EmptyDict]

NoConfigOut == [raised |-> FALSE, exc |-> "", id |-> 0]

NoApp ==
    /\ _instance = NoInstance
    /\ nCalls = 0
    /\ nLoads = 0
    /\ nRaised = 0
    /\ cfgOut = NoConfigOut
    /\ tm = NoThemeManager
    /\ tmOut = NoThemeOut
    /\ sysDark = FALSE
    /\ qapp = FALSE

NoFirst == [done |-> FALSE, config |-> EmptyDict, environ |-> [k \in {} |-> <<>>],
            fs |-> [dirs |-> {}, files |-> {}]]

NoRun ==
    /\ first = NoFirst
    /\ logFile = <<>>
    /\ nLogOps = 0
    /\ threads = <<>>

NoRes ==
    /\ _is_bundled = FALSE
    /\ res = NoResources
    /\ snap = EmptyDict
    /\ resIn = NoResIn
    /\ resOut = NoResOut
    /\ nInits = 0
    /\ nFsOps = 0

Init ==
    /\ fs = Fs0
    /\ created = {}
    /\ NoCast
    /\ bundled \in BOOLEAN
    /\ tomlFile \in TomlFiles
    /\ envFile \in EnvFiles
    /\ environ0 \in Environs
    /\ environ = environ0
    /\ pc = "init"
    /\ self = NoSelf
    /\ config = EmptyDict
    /\ logger = LoggerDefaults
    /\ reports = <<>>
    /\ NoGet
    /\ NoRes
    /\ NoApp
    /\ NoRun

Construct ==
    /\ pc = "init"
    /\ \E r \in {EnvironmentSetup_init(bundled, tomlFile, envFile, environ, logger)} :
          /\ pc' = IF r.raised THEN "raised_init" ELSE "constructed"
          /\ self' = r.self
          /\ environ' = r.environ
          /\ logger' = r.logger
          /\ reports' = r.reports
    /\ created' = {}
    /\ UNCHANGED <<fs, castVars, runVars, bundled, tomlFile, envFile, environ0, config, getIn,
                   getOut, resVars, appVars>>

Load ==
    /\ pc = "constructed"
    /\ \E r \in {load(self, fs, environ, logger)} :
          /\ pc' = IF r.raised THEN "raised_load" ELSE "loaded"
          /\ config' = r.config
          /\ fs' = r.fs
          /\ created' = r.fs.dirs \ fs.dirs
          /\ reports' = r.reports
    /\ UNCHANGED <<castVars, runVars, bundled, tomlFile, envFile, environ0, environ, self, logger,
                   getIn, getOut, resVars, appVars>>

\* given: the caller passes the default argument; one that is not passed is None
Get(key, given, default) ==
    /\ pc = "loaded"
    /\ given \/ default = VNone
    /\ \E r \in {_SafeConfig_get(config, logger, key, default)} :
          /\ getOut' = r.value
          /\ reports' = r.reports
    /\ getIn' = [key |-> key, given |-> given, default |-> default]
    /\ created' = {}
    /\ UNCHANGED <<fs, castVars, runVars, bundled, tomlFile, envFile, environ0, environ, pc, self,
                   config, logger, resVars, appVars>>

Next ==
    \/ Construct
    \/ Load
    \/ \E key \in GetKeys, given \in BOOLEAN, default \in GetDefaults :
           Get(key, given, default)

Spec == Init /\ [][Next]_vars

(***************************************************************************)
(* Resolving twice in one process: EnvironmentSetup().load(), and again    *)
(* with the environment variables and directories the first run left       *)
(***************************************************************************)
\* the caller keeps the mapping and constructs EnvironmentSetup once more
Again ==
    /\ pc = "loaded"
    /\ ~first.done
    /\ first' = [done |-> TRUE, config |-> config, environ |-> environ, fs |-> fs]
    /\ pc' = "init"
    /\ self' = NoSelf
    /\ reports' = <<>>
    /\ created' = {}
    /\ UNCHANGED <<fs, castVars, bundled, tomlFile, envFile, environ0, environ, config,
                   logger, getIn, getOut, resVars, appVars, logFile, nLogOps, threads>>

NextTwice ==
    \/ Construct
    \/ Load
    \/ Again

SpecTwice == Init /\ [][NextTwice]_vars

(***************************************************************************)
(* Logger and its file: the environment is set, the logger is configured   *)
(* from it, messages are logged                                            *)
(***************************************************************************)
LogEnvNames == {kPERSISTENCE_LOGGING, kPERSISTENCE_LOGGING_TARGET_NAME}
LogEnvValues == {sTrue, s0, sDemo}
LogLevels == {"DEBUG", "INFO", "WARNING", "ERROR", "CRITICAL"}

InitLog ==
    /\ fs = Fs0
    /\ created = {}
    /\ NoCast
    /\ bundled \in BOOLEAN
    /\ tomlFile = TomlAbsent
    /\ envFile = EnvAbsent
    /\ environ0 \in {NoEnviron, [k \in {kPERSISTENCE_LOGGING} |-> s1]}
    /\ environ = environ0
    /\ pc = "logger"
    /\ self = NoSelf
    /\ config = EmptyDict
    /\ logger = LoggerDefaults
    /\ reports = <<>>
    /\ NoGet
    /\ NoRes
    /\ NoApp
    /\ NoRun

logFrame ==
    UNCHANGED <<fs, created, castVars, bundled, tomlFile, envFile, environ0, pc, self,
                config, getIn, getOut, resVars, appVars, first, threads>>

\* os.environ[name] = value
SetEnv(name, value) ==
    /\ pc = "logger"
    /\ environ' = Put(environ, name, value)
    /\ UNCHANGED <<logger, reports, logFile, nLogOps>>
    /\ logFrame

\* Logger.configure_from_env()
ConfigureFromEnv ==
    /\ pc = "logger"
    /\ nLogOps < MaxLogOps
    /\ \E c \in {configure_from_env(environ)} :
          /\ logger' = c.logger
          /\ reports' = c.reports
    /\ logFile' = Logger_configure_file(logFile, environ, nLogOps + 1)
    /\ nLogOps' = nLogOps + 1
    /\ UNCHANGED environ
    /\ logFrame

\* Logger.log(message, level)
Log(level) ==
    /\ pc = "logger"
    /\ nLogOps < MaxLogOps
    /\ logFile' = Logger_log(logFile, logger, level, "message", nLogOps + 1)
    /\ reports' = <<LogCall(logger, level, "message")>>
    /\ nLogOps' = nLogOps + 1
    /\ UNCHANGED <<environ, logger>>
    /\ logFrame

NextLog ==
    \/ \E name \in LogEnvNames, value \in LogEnvValues : SetEnv(name, value)
    \/ ConfigureFromEnv
    \/ \E level \in LogLevels : Log(level)

SpecLog == InitLog /\ [][NextLog]_vars

(***************************************************************************)
(* _auto_cast as a function of its arguments and the filesystem            *)
(***************************************************************************)
InitCast ==
    /\ fs \in InitFs
    /\ created = {}
    /\ NoCast
    /\ bundled = FALSE
    /\ tomlFile = TomlAbsent
    /\ envFile = EnvAbsent
    /\ environ0 = NoEnviron
    /\ environ = environ0
    /\ pc = "cast"
    /\ self = NoSelf
    /\ config = EmptyDict
    /\ logger = LoggerDefaults
    /\ reports = <<>>
    /\ NoGet
    /\ NoRes
    /\ NoApp
    /\ NoRun

AutoCast(key, value) ==
    /\ pc = "cast"
    /\ nCasts < MaxCasts
    /\ \E r \in {_auto_cast(fs, key, value)} :
          /\ castOut' = r.out
          /\ fs' = r.fs
          /\ created' = r.fs.dirs \ fs.dirs
    /\ castIn' = [key |-> key, value |-> value]
    /\ nCasts' = nCasts + 1
    /\ UNCHANGED <<cfgVars, resVars, appVars, runVars>>

NextCast == \E key \in CastKeys, value \in CastValues : AutoCast(key, value)

SpecCast == InitCast /\ [][NextCast]_vars

(***************************************************************************)
(* Resources on a changing filesystem: initialize, list, look up           *)
(***************************************************************************)
InitRes ==
    /\ fs = FsRes
    /\ created = {}
    /\ NoCast
    /\ bundled \in BOOLEAN
    /\ tomlFile = TomlAbsent
    /\ envFile = EnvAbsent
    /\ environ0 = NoEnviron
    /\ environ = environ0
    /\ pc = "resources"
    /\ self = NoSelf
    /\ config = EmptyDict
    /\ logger = LoggerDefaults
    /\ reports = <<>>
    /\ NoGet
    /\ _is_bundled \in BOOLEAN
    /\ res = NoResources
    /\ snap = EmptyDict
    /\ resIn = NoResIn
    /\ resOut = NoResOut
    /\ nInits = 0
    /\ nFsOps = 0
    /\ NoApp
    /\ NoRun

resFrame ==
    UNCHANGED <<castVars, runVars, bundled, tomlFile, envFile, environ0, environ, pc, self, config,
                logger, getIn, getOut, _is_bundled, appVars>>

\* a call of Resources.initialize(items) when given, of Resources.initialize()
\* otherwise
DoInitialize(given, items) ==
    /\ nInits < MaxInits
    /\ given \/ items = <<>>
    /\ \E r \in {initialize(res, _is_bundled, bundled, fs, logger, given, items)} :
          /\ res' = r.cls
          /\ fs' = r.fs
          /\ created' = r.fs.dirs \ fs.dirs
          /\ reports' = r.reports
          /\ snap' = [c \in DOMAIN snap \cup r.done |->
                         IF c \in r.done
                         THEN [dir |-> r.cls.attrs[c], files |-> fs.files]
                         ELSE snap[c]]
          /\ resOut' = [NoResOut EXCEPT
                           !.out = IF r.raised THEN Raise(r.exc) ELSE Return(VNone)]
    /\ resIn' = [op |-> "initialize", given |-> given, items |-> items,
                 name |-> <<>>, path |-> <<>>]
    /\ nInits' = nInits + 1
    /\ UNCHANGED nFsOps
    /\ resFrame

Initialize(given, items) == pc = "resources" /\ DoInitialize(given, items)

\* Resources.get_all_in_<name>()
ListCategory(name) ==
    /\ pc = "resources"
    /\ name \in res.accessors
    /\ resOut' = [NoResOut EXCEPT !.list = get_all_in(res, fs, name)]
    /\ resIn' = [NoResIn EXCEPT !.op = "get_all_in", !.name = name]
    /\ reports' = <<>>
    /\ created' = {}
    /\ UNCHANGED <<fs, res, snap, nInits, nFsOps>>
    /\ resFrame

\* Resources.get_in_<name>(path)
Lookup(name, path) ==
    /\ pc = "resources"
    /\ name \in res.accessors
    /\ \E r \in {get_in(res, _is_bundled, bundled, fs, logger, name, path)} :
          /\ resOut' = [NoResOut EXCEPT !.out = r.out]
          /\ reports' = r.reports
    /\ resIn' = [NoResIn EXCEPT !.op = "get_in", !.name = name, !.path = path]
    /\ created' = {}
    /\ UNCHANGED <<fs, res, snap, nInits, nFsOps>>
    /\ resFrame

\* Resources.get_all()
GetAll ==
    /\ pc = "resources"
    /\ nInits > 0
    /\ resOut' = [NoResOut EXCEPT !.all = res.resources]
    /\ resIn' = [NoResIn EXCEPT !.op = "get_all"]
    /\ reports' = <<>>
    /\ created' = {}
    /\ UNCHANGED <<fs, res, snap, nInits, nFsOps>>
    /\ resFrame

\* another process writes a file
AddFile(p) ==
    /\ pc = "resources"
    /\ nFsOps < MaxFsOps
    /\ ~Exists(fs, p)
    /\ IsDir(fs, Parent(p))
    /\ fs' = [fs EXCEPT !.files = @ \cup {p}]
    /\ nFsOps' = nFsOps + 1
    /\ resIn' = [NoResIn EXCEPT !.op = "fs"]
    /\ resOut' = NoResOut
    /\ UNCHANGED <<created, reports, res, snap, nInits>>
    /\ resFrame

\* another process deletes a file
RemoveFile(p) ==
    /\ pc = "resources"
    /\ nFsOps < MaxFsOps
    /\ p \in fs.files
    /\ fs' = [fs EXCEPT !.files = @ \ {p}]
    /\ nFsOps' = nFsOps + 1
    /\ resIn' = [NoResIn EXCEPT !.op = "fs"]
    /\ resOut' = NoResOut
    /\ UNCHANGED <<created, reports, res, snap, nInits>>
    /\ resFrame

NextRes ==
    \/ \E items \in CategoryItems : Initialize(TRUE, items)
    \/ Initialize(FALSE, <<>>)
    \/ \E name \in CategoryNames : ListCategory(name)
    \/ \E name \in CategoryNames, path \in LookupPaths : Lookup(name, path)
    \/ GetAll
    \/ \E p \in TogglePaths : AddFile(p)
    \/ \E p \in TogglePaths : RemoveFile(p)

SpecRes == InitRes /\ [][NextRes]_vars

(***************************************************************************)
(* The application as main.py runs it: Config.get first, then reads,       *)
(* Resources.initialize on the configuration, and ThemeManager with the    *)
(* QApplication in place                                                   *)
(***************************************************************************)
stheme_mode == <<"t", "h", "e", "m", "e", "_", "m", "o", "d", "e">>
TomlTheme ==
    [state |-> "ok",
     top |-> << Table(sapp, <<Item(sname, VStr(sDemo))>>),
                Table(swindow, <<Item(stheme_mode, VStr(sdark))>>),
                Table(sresources, <<Item(sicons, VStr(sicons))>>) >>]
AppTomlFiles == {TomlAbsent, TomlCorrupt, TomlPlain, TomlTheme}
AppGetKeys == {kWINDOW_THEME_MODE}

\* cfg.items() restricted to the RESOURCES_ keys, in every order
ResourceItems(cfg) ==
    LET keys == {k \in DOMAIN cfg : StartsWith(k, sRESOURCES_)}
        orders == {s \in [1..Cardinality(keys) -> keys] :
                      \A i, j \in DOMAIN s : s[i] = s[j] => i = j}
    IN {[i \in DOMAIN s |-> Item(s[i], cfg[s[i]])] : s \in orders}

InitApp ==
    /\ fs = FsRes
    /\ created = {}
    /\ NoCast
    /\ bundled \in BOOLEAN
    /\ tomlFile \in AppTomlFiles
    /\ envFile = EnvAbsent
    /\ environ0 = NoEnviron
    /\ environ = environ0
    /\ pc = "start"
    /\ self = NoSelf
    /\ config = EmptyDict
    /\ logger = LoggerDefaults
    /\ reports = <<>>
    /\ NoGet
    /\ _is_bundled \in BOOLEAN
    /\ res = NoResources
    /\ snap = EmptyDict
    /\ resIn = NoResIn
    /\ resOut = NoResOut
    /\ nInits = 0
    /\ nFsOps = 0
    /\ _instance = NoInstance
    /\ nCalls = 0
    /\ nLoads = 0
    /\ nRaised = 0
    /\ cfgOut = NoConfigOut
    /\ tm = NoThemeManager
    /\ tmOut = NoThemeOut
    /\ sysDark \in BOOLEAN
    /\ qapp = TRUE
    /\ NoRun

\* the effect of a Config.get call with outcome r
configCall(r) ==
    /\ _instance' = r.instance
    /\ config' = r.config
    /\ environ' = r.environ
    /\ logger' = r.logger
    /\ fs' = r.fs
    /\ created' = r.fs.dirs \ fs.dirs
    /\ reports' = r.reports
    /\ self' = IF r.loads = 0 THEN self ELSE r.self
    /\ nLoads' = nLoads + r.loads
    /\ nRaised' = nRaised + (IF r.raised THEN 1 ELSE 0)
    /\ cfgOut' = [raised |-> r.raised, exc |-> r.exc,
                  id |-> IF r.raised THEN 0 ELSE r.instance.id]
    /\ pc' = IF r.raised THEN pc ELSE "loaded"

\* Config.get()
ConfigGet ==
    /\ pc \in {"start", "loaded"}
    /\ nCalls < MaxCalls
    /\ \E r \in {Config_get(_instance, config, nLoads, bundled, tomlFile, envFile,
                           environ, fs, logger)} : configCall(r)
    /\ nCalls' = nCalls + 1
    /\ UNCHANGED <<castVars, runVars, bundled, tomlFile, envFile, environ0, getIn, getOut, resVars,
                   tm, tmOut, sysDark, qapp>>

\* Resources.initialize(config) with the object Config.get returned
InitializeFromConfig ==
    /\ pc = "loaded"
    /\ \E items \in ResourceItems(config) : DoInitialize(TRUE, items)

\* ThemeManager(config) with the object Config.get returned, or ThemeManager()
NewThemeManager(withConfig) ==
    /\ pc = "loaded"
    /\ \E r \in {ThemeManager_init(tm, config, withConfig, sysDark, qapp, logger)} :
          /\ tm' = r.tm
          /\ tmOut' = [NoThemeOut EXCEPT !.raised = r.raised, !.exc = r.exc,
                                         !.palette = r.palette]
          /\ reports' = r.reports
    /\ created' = {}
    /\ UNCHANGED <<fs, castVars, runVars, cfgFrame, resVars, _instance, nCalls, nLoads, nRaised,
                   cfgOut, sysDark, qapp>>

themeCall(r) ==
    /\ tm' = r.tm
    /\ config' = r.config
    /\ tmOut' = [NoThemeOut EXCEPT !.palette = r.palette, !.emitted = r.emitted]
    /\ reports' = r.reports
    /\ created' = {}
    /\ UNCHANGED <<fs, castVars, runVars, bundled, tomlFile, envFile, environ0, environ, pc, self,
                   logger, getIn, getOut, resVars, _instance, nCalls, nLoads, nRaised,
                   cfgOut, sysDark, qapp>>

\* ThemeManager.set_theme(theme)
SetTheme(theme) ==
    /\ pc = "loaded"
    /\ \E r \in {set_theme(tm, config, sysDark, qapp, logger, theme)} : themeCall(r)

\* ThemeManager.toggle_theme()
ToggleTheme ==
    /\ pc = "loaded"
    /\ \E r \in {toggle_theme(tm, config, sysDark, qapp, logger)} : themeCall(r)

\* the timer started by ThemeManager.__init__ fires
CheckSystemTheme ==
    /\ pc = "loaded"
    /\ tm.timer
    /\ \E r \in {_check_system_theme_change(tm, config, sysDark, qapp, logger)} :
          themeCall(r)

\* the user switches the theme of the desktop
SystemThemeChanges ==
    /\ pc = "loaded"
    /\ sysDark' = ~sysDark
    /\ UNCHANGED <<fs, created, castVars, runVars, cfgVars, resVars, _instance, nCalls, nLoads,
                   nRaised, cfgOut, tm, tmOut, qapp>>

NextApp ==
    \/ ConfigGet
    \/ \E key \in AppGetKeys : Get(key, FALSE, VNone)
    \/ InitializeFromConfig
    \/ \E withConfig \in BOOLEAN : NewThemeManager(withConfig)
    \/ \E theme \in AppTheme : SetTheme(theme)
    \/ ToggleTheme
    \/ CheckSystemTheme
    \/ SystemThemeChanges

SpecApp == InitApp /\ [][NextApp]_vars

(***************************************************************************)
(* Config.get called by several threads.  A thread can be preempted        *)
(* between the test of _instance, the construction and load, the           *)
(* assignment to _instance and the return.                                 *)
(***************************************************************************)
Threads == 1..MaxThreads

\* a thread about to call Config.get
NoThread == [pc |-> "call", obj |-> NoInstance, loaded |-> EmptyDict, ret |-> 0]

InitThreads ==
    /\ fs = Fs0
    /\ created = {}
    /\ NoCast
    /\ bundled \in BOOLEAN
    /\ tomlFile \in AppTomlFiles
    /\ envFile \in {EnvAbsent, EnvPlain}
    /\ environ0 = NoEnviron
    /\ environ = environ0
    /\ pc = "threads"
    /\ self = NoSelf
    /\ config = EmptyDict
    /\ logger = LoggerDefaults
    /\ reports = <<>>
    /\ NoGet
    /\ NoRes
    /\ NoApp
    /\ first = NoFirst
    /\ logFile = <<>>
    /\ nLogOps = 0
    /\ threads = [t \in Threads |-> NoThread]

threadFrame ==
    UNCHANGED <<castVars, bundled, tomlFile, envFile, environ0, pc, getIn, getOut, resVars,
                nCalls, cfgOut, tm, tmOut, sysDark, qapp, first, logFile, nLogOps>>

\* if cls._instance is None
ThreadTest(t) ==
    /\ pc = "threads"
    /\ threads[t].pc = "call"
    /\ threads' = [threads EXCEPT
                      ![t].pc = IF _instance.none THEN "construct" ELSE "return"]
    /\ UNCHANGED <<fs, created, environ, self, config, logger, reports, _instance, nLoads,
                   nRaised>>
    /\ threadFrame

\* environment = EnvironmentSetup(); loaded = environment.load();
\* Logger.debug(...); _SafeConfig(loaded)
ThreadResolve(t) ==
    /\ pc = "threads"
    /\ threads[t].pc = "construct"
    /\ \E r \in {Config_load(_instance, config, nLoads, fs,
                             EnvironmentSetup_init(bundled, tomlFile, envFile, environ,
                                                   logger))} :
          /\ threads' = [threads EXCEPT
                            ![t].pc = IF r.raised THEN "raised" ELSE "store",
                            ![t].obj = IF r.raised THEN NoInstance ELSE r.instance,
                            ![t].loaded = IF r.raised THEN EmptyDict ELSE r.config]
          /\ environ' = r.environ
          /\ logger' = r.logger
          /\ fs' = r.fs
          /\ created' = r.fs.dirs \ fs.dirs
          /\ reports' = r.reports
          /\ self' = r.self
          /\ nRaised' = nRaised + (IF r.raised THEN 1 ELSE 0)
    /\ nLoads' = nLoads + 1
    /\ UNCHANGED <<config, _instance>>
    /\ threadFrame

\* cls._instance = ...
ThreadStore(t) ==
    /\ pc = "threads"
    /\ threads[t].pc = "store"
    /\ _instance' = threads[t].obj
    /\ config' = threads[t].loaded
    /\ threads' = [threads EXCEPT ![t].pc = "return"]
    /\ UNCHANGED <<fs, created, environ, self, logger, reports, nLoads, nRaised>>
    /\ threadFrame

\* return cls._instance
ThreadReturn(t) ==
    /\ pc = "threads"
    /\ threads[t].pc = "return"
    /\ threads' = [threads EXCEPT ![t].pc = "returned", ![t].ret = _instance.id]
    /\ UNCHANGED <<fs, created, environ, self, config, logger, reports, _instance, nLoads,
                   nRaised>>
    /\ threadFrame

NextThreads ==
    \E t \in Threads :
        \/ ThreadTest(t)
        \/ ThreadResolve(t)
        \/ ThreadStore(t)
        \/ ThreadReturn(t)

SpecThreads == InitThreads /\ [][NextThreads]_vars

(***************************************************************************)
(* Properties of _auto_cast (specification SpecCast)                       *)
(***************************************************************************)
CastDone == pc = "cast" /\ nCasts > 0

SameIgnoringCase(a, b) ==
    Len(a) = Len(b) /\ \A i \in DOMAIN a : LowerC(a[i]) = LowerC(b[i])

IsSpecialKey(key) == key \in {kLOG_LEVEL, kTHEME_MODE}
BooleanLike(v) == \E w \in TrueWords \cup FalseWords : SameIgnoringCase(v, w)
PositiveIntLike(v) == IsIntLiteral(v) /\ IntOf(v) > 0

\* C5: whenever _auto_cast returns, the value is the result of the first step,
\* in the order LOG_LEVEL, THEME_MODE, boolean, positive integer, path,
\* string, that applies to the key and succeeds; no later step acts (a
\* boolean-like or integer-like value creates no directory for a path-like
\* key, and is not returned as a path or a string).
C5_FirstSuccessWins ==
    CastDone =>
        LET k == castIn.key
            v == castIn.value
        IN  /\ (k = kLOG_LEVEL /\ ~castOut.raised) =>
                   castOut.val.t = "LogLevel" /\ created = {}
            /\ (k = kTHEME_MODE /\ ~castOut.raised) =>
                   castOut.val.t = "AppTheme" /\ created = {}
            /\ (~IsSpecialKey(k) /\ BooleanLike(v)) =>
                   castOut = ensure_boolean(v) /\ created = {}
            /\ (~IsSpecialKey(k) /\ ~BooleanLike(v) /\ PositiveIntLike(v)) =>
                   castOut = ensure_positive_int(v) /\ created = {}
            /\ (~IsSpecialKey(k) /\ ~BooleanLike(v) /\ ~PositiveIntLike(v)
                    /\ IsPathKey(k) /\ ~castOut.raised) =>
                   castOut.val = VStr(PathResolve(v))
            /\ (~IsSpecialKey(k) /\ ~BooleanLike(v) /\ ~PositiveIntLike(v)
                    /\ ~IsPathKey(k)) =>
                   castOut = Return(VStr(v)) /\ created = {}

\* a boolean-like value for a path-like key came back as a boolean
C5_Witness ==
    /\ CastDone
    /\ castIn = [key |-> kLOG_DIR, value |-> sOn]
    /\ castOut = Return(VBool(TRUE))
    /\ created = {}

\* C6: for LOG_LEVEL every letter-case variant of a LogLevel name yields that
\* member and every other string raises ValueError; the same for THEME_MODE
\* and AppTheme.
C6_EnumParse ==
    CastDone =>
        LET v == castIn.value
            Parsed(members, type) ==
                IF \E m \in members : SameIgnoringCase(v, m)
                THEN /\ ~castOut.raised
                     /\ castOut.val.t = type
                     /\ castOut.val.s \in members
                     /\ SameIgnoringCase(v, castOut.val.s)
                ELSE castOut = Raise("ValueError")
        IN  /\ castIn.key = kLOG_LEVEL => Parsed(LogLevel, "LogLevel")
            /\ castIn.key = kTHEME_MODE => Parsed(AppTheme, "AppTheme")

\* "debug" gave LogLevel.DEBUG
C6_Witness ==
    /\ CastDone
    /\ castIn = [key |-> kLOG_LEVEL, value |-> sdebug]
    /\ castOut = Return(VLogLevel(sDEBUG))

\* C7: for a key other than LOG_LEVEL and THEME_MODE, a string equal up to
\* letter case to true, yes, 1 or on casts to True, one equal to false, no, 0
\* or off casts to False, and no other string casts to a boolean.
C7_BooleanCoercion ==
    (CastDone /\ ~IsSpecialKey(castIn.key)) =>
        LET v == castIn.value
        IN  /\ (\E w \in TrueWords : SameIgnoringCase(v, w)) =>
                   castOut = Return(VBool(TRUE))
            /\ (\E w \in FalseWords : SameIgnoringCase(v, w)) =>
                   castOut = Return(VBool(FALSE))
            /\ ~BooleanLike(v) => castOut.val.t # "bool"

\* "On" gave True
C7_Witness ==
    /\ CastDone
    /\ castIn = [key |-> kAPP_NAME, value |-> sOn]
    /\ castOut = Return(VBool(TRUE))

\* C8 as claimed: "42" casts to the integer 42 and the casts of "0" and "-5"
\* fail.
C8_AsClaimed ==
    (CastDone /\ ~IsSpecialKey(castIn.key)) =>
        /\ castIn.value = s42 => castOut = Return(VInt(42))
        /\ castIn.value \in {s0, sNeg5} => castOut.raised

\* C8 amended: _auto_cast returns only integers strictly greater than zero,
\* and "42" gives 42; "0" is taken by the boolean step and gives False; "-5"
\* is no integer for the cast, which goes on to the path and string steps and
\* does not fail.
C8_PositiveIntCoercion ==
    (CastDone /\ ~IsSpecialKey(castIn.key)) =>
        /\ castOut.val.t = "int" =>
               /\ castOut.val.n > 0
               /\ IsIntLiteral(castIn.value)
               /\ castOut.val.n = IntOf(castIn.value)
        /\ castIn.value = s42 => castOut = Return(VInt(42))
        /\ castIn.value = s0 => castOut = Return(VBool(FALSE))
        /\ castIn.value = sNeg5 =>
               /\ ~castOut.raised
               /\ castOut.val.t = "str"
               /\ castOut.val.s = IF IsPathKey(castIn.key)
                                  THEN PathResolve(sNeg5) ELSE sNeg5

\* "0" gave False, not a failure
C8_Witness ==
    /\ CastDone
    /\ castIn = [key |-> kAPP_NAME, value |-> s0]
    /\ castOut = Return(VBool(FALSE))

\* C9 as claimed: for a path-like key and a value that is neither boolean-like
\* nor a positive integer, a path with a suffix is returned and nothing is
\* created; a path without one is returned and is a directory afterwards.
C9_AsClaimed ==
    (CastDone /\ ~IsSpecialKey(castIn.key) /\ IsPathKey(castIn.key)
        /\ ~BooleanLike(castIn.value) /\ ~PositiveIntLike(castIn.value)) =>
        LET p == PathResolve(castIn.value)
        IN  /\ castOut = Return(VStr(p))
            /\ IF PathSuffix(p) # <<>> THEN created = {} ELSE IsDir(fs, p)

(***************************************************************************)
(* Properties of configuration resolution (specification Spec)             *)
(***************************************************************************)
\* the section/key pairs of the base file, by position
BasePairs ==
    {<<i, j>> \in (DOMAIN tomlFile.top) \X (1..8) :
        tomlFile.top[i].table /\ j \in DOMAIN tomlFile.top[i].items}

\* upper(S) + "_" + upper(K) of the pair at position q
FlatName(q) ==
    LET e == tomlFile.top[q[1]]
    IN  [i \in DOMAIN e.name |-> UpperC(e.name[i])] \o <<"_">>
        \o [i \in DOMAIN e.items[q[2]].key |-> UpperC(e.items[q[2]].key[i])]

PairValue(q) == tomlFile.top[q[1]].items[q[2]].val

Later(q, r) == r[1] > q[1] \/ (r[1] = q[1] /\ r[2] > q[2])

\* the last pair of the base file, in file order, that flattens to name
LastPair(name) ==
    CHOOSE q \in BasePairs :
        /\ FlatName(q) = name
        /\ \A r \in BasePairs : FlatName(r) = name => ~Later(q, r)

BaseNames == {FlatName(q) : q \in BasePairs}

\* the names and values the overlay file defines
OverlayNames == {envFile.entries[i].key : i \in DOMAIN envFile.entries}
OverlayValue(name) ==
    LET last == CHOOSE i \in DOMAIN envFile.entries :
                    /\ envFile.entries[i].key = name
                    /\ \A j \in DOMAIN envFile.entries :
                           envFile.entries[j].key = name => j <= i
    IN envFile.entries[last].val

\* what the merge stores for name and raw string v: the cast, or v when the
\* cast raises
CastOrRaw(name, v) ==
    LET r == _auto_cast(fs, name, v).out IN IF r.raised THEN VStr(v) ELSE r.val

\* C1 as claimed: in development mode with the overlay file present, every key
\* of both the base file and the overlay file holds the cast of the overlay
\* file's value, whatever the initial process environment.
C1_AsClaimed ==
    (pc = "loaded" /\ self.is_dev /\ envFile.exists) =>
        \A name \in BaseNames \cap OverlayNames :
            /\ name \in DOMAIN config
            /\ config[name] = CastOrRaw(name, OverlayValue(name))

\* C1 amended: such a key holds the cast (the raw string when the cast raises)
\* of the overlay file's value when the initial process environment does not
\* define it, and the cast of the initial environment's value when it does;
\* except that IS_DEV_MODE holds the execution mode and a key that
\* str.isupper rejects (it has no letter) keeps its base value.
C1_OverlayPrecedence ==
    (pc = "loaded" /\ self.is_dev /\ envFile.exists) =>
        \A name \in BaseNames \cap OverlayNames :
            /\ name \in DOMAIN config
            /\ config[name] =
                   IF name = kIS_DEV_MODE THEN VBool(TRUE)
                   ELSE IF ~isupper(name) THEN PairValue(LastPair(name))
                   ELSE IF name \in DOMAIN environ0
                   THEN CastOrRaw(name, environ0[name])
                   ELSE CastOrRaw(name, OverlayValue(name))

\* APP_NAME of the base file was replaced by the overlay file's value
C1_Witness ==
    /\ pc = "loaded"
    /\ self.is_dev
    /\ tomlFile = TomlPlain
    /\ envFile = EnvPlain
    /\ kAPP_NAME \notin DOMAIN environ0
    /\ config[kAPP_NAME] = VStr(sOver)
    /\ config[kWINDOW_WIDTH] = VInt(1024)

\* C2 as claimed: with the base file missing, load reports an error and returns
\* a mapping whose only key is IS_DEV_MODE, holding the execution mode.
C2_AsClaimed ==
    (pc = "loaded" /\ tomlFile.state = "absent") =>
        /\ \E i \in DOMAIN reports : reports[i].level = "ERROR"
        /\ DOMAIN config = {kIS_DEV_MODE}
        /\ config[kIS_DEV_MODE] = VBool(~bundled)

\* C3 as claimed: every section S and key K of the base file, with no overlay
\* entry of that name, is in the mapping as upper(S)_upper(K) with the base
\* value of S.K.
C3_AsClaimed ==
    pc = "loaded" =>
        \A q \in BasePairs :
            FlatName(q) \notin OverlayNames =>
                /\ FlatName(q) \in DOMAIN config
                /\ config[FlatName(q)] = PairValue(q)

\* C3 amended: whenever load returns a mapping, it contains upper(S)_upper(K)
\* for every section S and key K of the base file; the key holds the base
\* value of S.K when no later pair of the file flattens to the same name, the
\* name is not IS_DEV_MODE, and, the overlay being loaded, the process
\* environment holds no variable of that name that str.isupper accepts.
C3_Flattening ==
    pc = "loaded" =>
        \A q \in BasePairs :
            /\ FlatName(q) \in DOMAIN config
            /\ ( /\ q = LastPair(FlatName(q))
                 /\ FlatName(q) # kIS_DEV_MODE
                 /\ ~(self.env_loaded /\ FlatName(q) \in DOMAIN environ
                        /\ isupper(FlatName(q))) ) =>
                   config[FlatName(q)] = PairValue(q)

\* [window] Width of the base file is WINDOW_WIDTH of the mapping
C3_Witness ==
    /\ pc = "loaded"
    /\ tomlFile = TomlPlain
    /\ ~self.env_loaded
    /\ config[kWINDOW_WIDTH] = VInt(800)
    /\ config[kAPP_NAME] = VStr(sDemo)

\* C4: in the overlay merge (the overlay is loaded and the base file exists)
\* a variable with an upper-case name whose cast raises is in the mapping
\* with its raw string, the other upper-case variables are merged with their
\* casts, and load returns: it raises only for a top-level entry of the base
\* file that is no table.
C4_CastFailureKeepsRaw ==
    /\ (pc = "loaded" /\ self.env_loaded /\ ~self.none) =>
           \A name \in DOMAIN environ :
               (isupper(name) /\ name # kIS_DEV_MODE) =>
                   /\ name \in DOMAIN config
                   /\ config[name] =
                          IF _auto_cast(fs, name, environ[name]).out.raised
                          THEN VStr(environ[name])
                          ELSE _auto_cast(fs, name, environ[name]).out.val
    /\ pc = "raised_load" =>
           \E i \in DOMAIN tomlFile.top : ~tomlFile.top[i].table

\* LOG_LEVEL=bogus (ValueError) and LOG_DIR below a regular file (OSError)
\* kept their raw strings, and the other keys were merged
C4_Witness ==
    /\ pc = "loaded"
    /\ self.env_loaded
    /\ environ0 = [k \in {kAPP_NAME} |-> sShell]
    /\ kLOG_LEVEL \in DOMAIN config /\ config[kLOG_LEVEL] = VStr(sbogus)
    /\ kLOG_DIR \in DOMAIN config /\ config[kLOG_DIR] = VStr(pTmpFSub)
    /\ config[kAPP_NAME] = VStr(sShell)

\* a _SafeConfig.get call has been made
GetDone == pc = "loaded" /\ getIn.key # <<>>

\* C10: for a key of the mapping, whatever the default, get returns the stored
\* value and makes one Logger call, a debug message.
C10_HitReturnsStored ==
    (GetDone /\ getIn.key \in DOMAIN config) =>
        /\ getOut = config[getIn.key]
        /\ Len(reports) = 1
        /\ reports[1].level = "DEBUG"
        /\ reports[1].msg = "retrieved"

\* a present key read with a default that differs from the stored value
C10_Witness ==
    /\ GetDone
    /\ getIn = [key |-> kAPP_NAME, given |-> TRUE, default |-> VStr(sfallback)]
    /\ kAPP_NAME \in DOMAIN config
    /\ getOut = VStr(sDemo)

\* the levels Logger offers
Severities == {"DEBUG", "INFO", "WARNING", "ERROR", "CRITICAL"}

\* a _SafeConfig.get call for a key the mapping does not hold
GetMiss == GetDone /\ getIn.key \notin DOMAIN config

\* C11 as stated: for an absent key and every default the caller passes, get
\* returns the default and reports a warning, not an error.
C11_AsClaimed ==
    (GetMiss /\ getIn.given) =>
        /\ getOut = getIn.default
        /\ Len(reports) = 1
        /\ reports[1].level = "WARNING"

\* C11: for an absent key and a default the caller passes that is not None, get
\* returns the default and makes one Logger call, a warning; a default passed as
\* None is returned too, but is reported as an error like a default not passed.
C11_DefaultedMiss ==
    (GetMiss /\ getIn.given) =>
        /\ getOut = getIn.default
        /\ Len(reports) = 1
        /\ IF getIn.default = VNone
           THEN reports[1].level = "ERROR" /\ reports[1].msg = "missing"
           ELSE reports[1].level = "WARNING" /\ reports[1].msg = "default_used"

\* an absent key read with the falsy default False
C11_Witness ==
    /\ GetMiss
    /\ getIn = [key |-> kUNSET_KEY, given |-> TRUE, default |-> VBool(FALSE)]
    /\ getOut = VBool(FALSE)
    /\ reports[1].level = "WARNING"

\* C12 as stated: for an absent key and no default, get returns None and reports
\* the miss at the loudest level Logger offers.
C12_AsClaimed ==
    (GetMiss /\ ~getIn.given) =>
        /\ getOut = VNone
        /\ Len(reports) = 1
        /\ \A l \in Severities : _PRIORITY(reports[1].level) >= _PRIORITY(l)

\* C12: for an absent key and no default, get returns None and makes one Logger
\* call, at level ERROR, which is below CRITICAL and above the warning of a
\* defaulted miss.
C12_UnrecoverableMiss ==
    (GetMiss /\ ~getIn.given) =>
        /\ getOut = VNone
        /\ Len(reports) = 1
        /\ reports[1].level = "ERROR"
        /\ reports[1].msg = "missing"
        /\ _PRIORITY("ERROR") < _PRIORITY("CRITICAL")
        /\ _PRIORITY("ERROR") > _PRIORITY("WARNING")

\* an absent key read without a default
C12_Witness ==
    /\ GetMiss
    /\ getIn = [key |-> kUNSET_KEY, given |-> FALSE, default |-> VNone]
    /\ getOut = VNone
    /\ reports[1].level = "ERROR"

(***************************************************************************)
(* Properties of Resources (specification SpecRes)                         *)
(***************************************************************************)
\* the last operation was a Resources.initialize call that returned
InitReturned == pc = "resources" /\ resIn.op = "initialize" /\ ~resOut.out.raised

\* the category definitions the class holds, the reserved base excluded
Declared == {d \in Range(res.cfg) : d.key # sbase}

sSlashResources == <<"/", "r", "e", "s", "o", "u", "r", "c", "e", "s", "/">>
pResFonts == <<"/", "w", "/", "r", "e", "s", "o", "u", "r", "c", "e", "s", "/", "f", "o", "n", "t", "s">>
pBundleFonts == <<"/", "b", "/", "r", "e", "s", "o", "u", "r", "c", "e", "s", "/", "f", "o", "n", "t", "s">>

\* C16: in a bundle (sys.frozen set and sys._MEIPASS defined), when initialize
\* returns, every category other than base has the directory
\* <sys._MEIPASS>/resources/<category>, whatever path was declared, and no
\* directory was created.
C16_PackagedDirs ==
    (InitReturned /\ _is_bundled /\ bundled) =>
        /\ created = {}
        /\ fs.dirs = FsRes.dirs
        /\ \A d \in Declared :
              /\ d.key \in DOMAIN res.attrs
              /\ res.attrs[d.key] = MeiPass \o sSlashResources \o d.key

\* in a bundle, icons declared as /tmp/x and fonts as assets/fonts
C16_Witness ==
    /\ InitReturned /\ _is_bundled /\ bundled
    /\ resIn.items = DefsOther
    /\ res.attrs[sicons] = pBundleIcons
    /\ res.attrs[sfonts] = pBundleFonts
    /\ pTmpX \notin fs.dirs /\ pBundleFonts \notin fs.dirs

\* what follows the last slash of a path
Basename(s) ==
    LET slashes == {i \in DOMAIN s : s[i] = "/"}
    IN IF slashes = {} THEN s
       ELSE SubSeq(s, (CHOOSE i \in slashes : \A j \in slashes : j <= i) + 1, Len(s))

\* C17: outside a bundle (neither marker set), when initialize returns, every
\* category other than base has the declared path as its directory when that
\* path is absolute and <cwd>/resources/<basename of the declared path>
\* otherwise, and that directory exists.
C17_DevelopmentDirs ==
    (InitReturned /\ ~_is_bundled /\ ~bundled) =>
        \A d \in Declared :
            /\ d.key \in DOMAIN res.attrs
            /\ res.attrs[d.key] =
                  IF Head(d.path.s) = "/" THEN d.path.s
                  ELSE Cwd \o sSlashResources \o Basename(d.path.s)
            /\ res.attrs[d.key] \in fs.dirs

\* outside a bundle, fonts declared as assets/fonts is created under
\* <cwd>/resources and icons declared as /tmp/x is created there
C17_Witness ==
    /\ InitReturned /\ ~_is_bundled /\ ~bundled
    /\ resIn.items = DefsOther
    /\ res.attrs[sfonts] = pResFonts
    /\ res.attrs[sicons] = pTmpX
    /\ {pResFonts, pTmpX} \subseteq created

\* the last operation was a get_all_in_<name> call
ListDone == pc = "resources" /\ resIn.op = "get_all_in"

LookupDone == pc = "resources" /\ resIn.op = "get_in"

\* a path as the process sees it
FromCwd(p) == IF Head(p) = "/" THEN p ELSE Cwd \o <<"/">> \o p

\* C19 as stated: an argument that exists is returned verbatim.
C19_AsClaimed ==
    (LookupDone /\ Exists(fs, FromCwd(resIn.path))) =>
        resOut.out = Return(VStr(resIn.path))

\* C19: get_in_<category> returns the absolute form of the first candidate
\* that exists among the argument, the argument joined to the category
\* directory and, when sys.frozen is set, the argument joined to
\* <sys._MEIPASS>/resources; an absolute argument is returned as it is, a
\* relative one from the working directory.  When none exists it reports an
\* error and raises FileNotFoundError, or AttributeError when sys.frozen is set
\* and sys._MEIPASS is not defined.
C19_LookupOrder ==
    LookupDone =>
        LET arg == resIn.path
            c1 == FromCwd(arg)
            c2 == FromCwd(IF Head(arg) = "/" THEN arg
                          ELSE res.attrs[resIn.name] \o <<"/">> \o arg)
            c3 == FromCwd(IF Head(arg) = "/" THEN arg
                          ELSE MeiPass \o sSlashResources \o arg)
        IN IF Exists(fs, c1) THEN resOut.out = Return(VStr(c1)) /\ reports = <<>>
           ELSE IF Exists(fs, c2) THEN resOut.out = Return(VStr(c2)) /\ reports = <<>>
           ELSE IF _is_bundled /\ ~bundled THEN resOut.out = Raise("AttributeError")
           ELSE IF _is_bundled /\ Exists(fs, c3)
                THEN resOut.out = Return(VStr(c3)) /\ reports = <<>>
           ELSE /\ resOut.out = Raise("FileNotFoundError")
                /\ Len(reports) = 1
                /\ reports[1].level = "ERROR"

\* a.png exists in the working directory and in the icons directory: the
\* first is returned, as an absolute path
C19_Witness ==
    /\ LookupDone /\ ~_is_bundled
    /\ resIn.name = sicons /\ resIn.path = sAPng
    /\ res.attrs[sicons] = pResIcons
    /\ {pCwdA, pResIconsA} \subseteq fs.files
    /\ resOut.out = Return(VStr(pCwdA))

\* C20 as stated: when initialize, called with category definitions, returns,
\* the index (the mapping get_all returns) and the accessors hold the
\* categories of that call and no other.
C20_AsClaimed ==
    LET latest == {d.key : d \in Declared}
    IN (InitReturned /\ resIn.given) =>
           DOMAIN res.resources = latest /\ res.accessors = latest

(***************************************************************************)
(* More properties of configuration resolution (specification Spec)        *)
(***************************************************************************)
\* C15 as stated: in packaged mode, or in development mode without the overlay
\* file, the mapping load returns is the flattened base file plus IS_DEV_MODE,
\* with nothing from the overlay file or the process environment, and the
\* constructor reports a warning when the file is missing in development mode.
C15_AsClaimed ==
    /\ (pc = "loaded" /\ (bundled \/ ~envFile.exists)) =>
           /\ DOMAIN config = BaseNames \cup {kIS_DEV_MODE}
           /\ config[kIS_DEV_MODE] = VBool(~bundled)
           /\ \A name \in BaseNames \ {kIS_DEV_MODE} :
                  config[name] = PairValue(LastPair(name))
    /\ (pc = "constructed" /\ ~bundled /\ ~envFile.exists) =>
           \E i \in DOMAIN reports : reports[i].level = "WARNING"

(***************************************************************************)
(* Properties of the application (specification SpecApp)                   *)
(***************************************************************************)
\* C13 as stated: once Config.get has returned, no step of the program changes
\* the mapping it returned.
C13_AsClaimed == [][(pc = "loaded" /\ ~_instance.none) => config' = config]_vars

\* C14 as stated: however many calls of Config.get were made, one
\* EnvironmentSetup was constructed, by the first call, and a call that
\* returns returns the object of that construction.
C14_AsClaimed ==
    nCalls > 0 =>
        /\ nLoads = 1
        /\ ~cfgOut.raised => cfgOut.id = 1

\* C14: Config.get constructs an EnvironmentSetup in every call that raises
\* and in the first call that returns, and in no call after that one; every
\* call that returns returns the object made by that first returning call.
C14_LoadedOnce ==
    nCalls > 0 =>
        /\ nLoads = nRaised + (IF _instance.none THEN 0 ELSE 1)
        /\ ~_instance.none => _instance.id = nLoads
        /\ ~cfgOut.raised => ~_instance.none /\ cfgOut.id = _instance.id

\* two calls of Config.get, one EnvironmentSetup, the same object returned
C14_Witness ==
    /\ nCalls = 2
    /\ nLoads = 1
    /\ nRaised = 0
    /\ tomlFile = TomlTheme
    /\ ~cfgOut.raised /\ cfgOut.id = 1
    /\ config[kWINDOW_THEME_MODE] = VStr(sdark)

(***************************************************************************)
(* Logging activation in packaged mode                                     *)
(***************************************************************************)
Resolved == pc \in {"constructed", "loaded"}

\* the base file's logging.persistence_logging, and its app.name
BaseFlag ==
    \E i \in DOMAIN tomlFile.top :
        /\ tomlFile.top[i].name = slogging
        /\ \E j \in DOMAIN tomlFile.top[i].items :
               /\ tomlFile.top[i].items[j].key = spersistence_logging
               /\ tomlFile.top[i].items[j].val = VBool(TRUE)

BaseAppNames ==
    UNION {{tomlFile.top[i].items[j].val.s :
               j \in {k \in DOMAIN tomlFile.top[i].items :
                         tomlFile.top[i].items[k].key = sname}} :
           i \in {k \in DOMAIN tomlFile.top : tomlFile.top[k].name = sapp}}

\* C21 as claimed: in packaged mode, whatever the process environment was,
\* after resolution persistence logging is active exactly when the base file
\* is absent or sets logging.persistence_logging, and then the target name
\* the logger reads is the base file's app.name
C21_AsClaimed ==
    (bundled /\ Resolved) =>
        /\ logger.PERSISTENCE_LOGGING <=> (tomlFile.state = "absent" \/ BaseFlag)
        /\ BaseFlag =>
               /\ kPERSISTENCE_LOGGING_TARGET_NAME \in DOMAIN environ
               /\ environ[kPERSISTENCE_LOGGING_TARGET_NAME] \in BaseAppNames

\* C22 as claimed: with a well-formed base file, in either mode, neither the
\* constructor of EnvironmentSetup nor load raises.
C22_AsClaimed == tomlFile.state = "ok" => pc \notin {"raised_init", "raised_load"}

(***************************************************************************)
(* Resolving twice (specification SpecTwice)                               *)
(***************************************************************************)
\* C23: when EnvironmentSetup is constructed and loaded a second time, with
\* the same files, in the process environment and on the filesystem as the
\* first resolution left them, the second resolution raises nothing, returns
\* a mapping equal to the first, and leaves the environment and the
\* filesystem as it found them.
C23_ResolveTwice ==
    first.done =>
        /\ pc \notin {"raised_init", "raised_load"}
        /\ environ = first.environ
        /\ fs = first.fs
        /\ pc = "loaded" => config = first.config

\* a second resolution in development mode, after the first one added the
\* overlay's variables to the environment and created a directory
C23_Witness ==
    /\ first.done
    /\ pc = "loaded"
    /\ ~bundled
    /\ envFile = EnvDevMode
    /\ first.environ # environ0
    /\ pTmpX \in first.fs.dirs /\ pTmpX \notin Fs0.dirs
    /\ config[kLOG_DIR] = VStr(pTmpX)

(***************************************************************************)
(* Collisions while flattening                                             *)
(***************************************************************************)
\* the first pair of the base file, in file order, that flattens to name
FirstPair(name) ==
    CHOOSE q \in BasePairs :
        /\ FlatName(q) = name
        /\ \A r \in BasePairs : FlatName(r) = name => ~Later(r, q)

\* C24 as claimed: in the mapping load returns, with nothing merged from the
\* environment, every flattened name holds the value of the first section/key
\* pair of the base file that flattens to it.
C24_AsClaimed ==
    (pc = "loaded" /\ tomlFile.state = "ok" /\ ~self.env_loaded) =>
        \A name \in BaseNames \ {kIS_DEV_MODE} :
            config[name] = PairValue(FirstPair(name))

(***************************************************************************)
(* The log file (specification SpecLog)                                    *)
(***************************************************************************)
\* C25 as claimed: no call on Logger removes an entry from the log file, and a
\* header is written only to a file that holds none.
C25_AsClaimed ==
    [][/\ Len(logFile') >= Len(logFile)
       /\ SubSeq(logFile', 1, Len(logFile)) = logFile
       /\ (\E i \in DOMAIN logFile' : logFile'[i].header /\ logFile'[i].at > nLogOps)
              => logFile = <<>>]_vars

(***************************************************************************)
(* The two detections of the execution mode (specification SpecApp)        *)
(***************************************************************************)
\* C26 as claimed: whatever sys._MEIPASS and sys.frozen are, IS_DEV_MODE of the
\* resolved configuration is true exactly when Resources does not take the
\* process for bundled, and Resources.initialize does not fail reading
\* sys._MEIPASS.
C26_AsClaimed ==
    /\ (pc = "loaded" /\ kIS_DEV_MODE \in DOMAIN config) =>
           config[kIS_DEV_MODE] = VBool(~_is_bundled)
    /\ resIn.op = "initialize" => resOut.out # Raise("AttributeError")

(***************************************************************************)
(* The meta flag                                                           *)
(***************************************************************************)
\* C27: when the base file exists and load returns, the mapping holds
\* IS_DEV_MODE and its value is the mode EnvironmentSetup detected (true
\* without sys._MEIPASS), whatever the base file, the overlay file and the
\* process environment say under that name.
C27_MetaFlagLast ==
    (pc = "loaded" /\ tomlFile.state = "ok") =>
        /\ kIS_DEV_MODE \in DOMAIN config
        /\ config[kIS_DEV_MODE] = VBool(~bundled)

\* development mode, a base file whose [is] dev_mode flattens to IS_DEV_MODE
\* and an overlay file with the line IS_DEV_MODE=false
C27_Witness ==
    /\ pc = "loaded"
    /\ ~bundled
    /\ tomlFile = TomlDevMode
    /\ envFile = EnvDevMode
    /\ environ[kIS_DEV_MODE] = sfalse
    /\ config[kIS_DEV_MODE] = VBool(TRUE)

(***************************************************************************)
(* Config.get under concurrency (specification SpecThreads)                *)
(***************************************************************************)
\* C28 as claimed: when several threads call Config.get before the
\* configuration is loaded, under every interleaving one resolution at most
\* runs to its end and the threads that return hold the same object.
C28_AsClaimed ==
    /\ nLoads - nRaised <= 1
    /\ \A t, u \in Threads :
           (threads[t].pc = "returned" /\ threads[u].pc = "returned") =>
               threads[t].ret = threads[u].ret

(***************************************************************************)
(* Following the system theme (specification SpecApp)                      *)
(***************************************************************************)
\* C29 as claimed: a run of the periodic check, while the current theme is
\* AUTO and the system theme differs from the recorded one, records the
\* system theme, applies it and emits theme_changed; while the current theme
\* is LIGHT or DARK the check changes neither ThemeManager nor the
\* configuration.
C29_AsClaimed ==
    [][CheckSystemTheme =>
          /\ (tm.current = sAUTO /\ tm.last # SystemTheme(sysDark)) =>
                 /\ tm'.last = SystemTheme(sysDark)
                 /\ tmOut'.palette = (IF sysDark THEN "DARK" ELSE "LIGHT")
                 /\ tmOut'.emitted = <<sAUTO>>
          /\ tm.current \in {sLIGHT, sDARK} => (tm' = tm /\ config' = config)]_vars

====
